---- MODULE Spec2Model ----
(***************************************************************************)
(* The speech-to-text WebSocket server (src/stt/server.py): one coroutine  *)
(* ws_stt per connection, a BufferState per connection, and the module-    *)
(* wide model_lock (src/core/model.py) that serialises transcription.      *)
(*                                                                         *)
(* Units.  The clock `now` counts seconds.  Durations of audio that the    *)
(* code keeps as float seconds (dur, total_buffered, utter_duration) are   *)
(* kept here as the number of bytes they stand for, i.e. seconds times     *)
(* 2 * SAMPLE_RATE, so every comparison of the code is an exact integer    *)
(* comparison.  PCM samples are kept as the int16 value, i.e. the float32  *)
(* value times 32768.  The configuration is a small one (sample_rate: 1,   *)
(* thresholds of a few seconds) that core/config.py accepts.               *)
(*                                                                         *)
(* Transport.  A send on an open connection succeeds, and the client's     *)
(* disconnect is seen by the server as a websocket.disconnect message at   *)
(* its next receive.                                                       *)
(*                                                                         *)
(* The talkback client (src/client) is modelled beside it: the capture     *)
(* callback on the audio thread, the audio reader, the VAD sender, the     *)
(* receiver with its reply pipeline, and connect_and_run that waits for    *)
(* the two loops.  Each coroutine has a position variable and takes one    *)
(* step from suspension point to suspension point; the callback runs on    *)
(* its own thread and may be interleaved with them at any point between    *)
(* its queue operations.  Server and client are followed by separate       *)
(* specifications over the same variables.                                 *)
(***************************************************************************)
EXTENDS Integers, Sequences, FiniteSets, TLC

\* ---------------------------------------------------------------- bounds
\* The clock stops advancing here.
MaxTime == 5
\* Messages (binary frames and text commands) a single session receives.
MaxMsgs == 5
\* Messages received over all the connections that share the model.
MaxSharedMsgs == 6
\* POST /tts requests the text-to-speech server receives, and those it
\* receives while its configuration is being updated.
MaxRequests == 4
MaxConfigRequests == 1

\* The connections that may be opened, and the one followed alone.
Conns == {"c1", "c2", "c3"}
Session == {"c1"}

\* --------------------------------------------------- configuration values
SAMPLE_RATE == 1
MIN_UTTERANCE_SECONDS == 3
SILENCE_MAX_SECONDS == 1
MAX_UTTERANCE_SECONDS == 5
MAX_BUFFER_SECONDS == 6
\* (SILENCE_RMS_THRESHOLD * 32768)^2 less the 1e-12 epsilon of rms, times 100
\* and rounded up: 0.008 -> 68719.4757 -> 6871948.
ThresholdSq100 == 6871948

MSG_TYPE_READY == "ready"
MSG_TYPE_TRANSCRIPT == "transcript"
MSG_TYPE_FLUSHED == "flushed"
MSG_TYPE_ERROR == "error"

\* Python's None for the optional timestamps; no connection for the lock.
None == -1
Free == "free"

\* Seconds of audio expressed in bytes of 16-bit mono PCM.
SecondsToBytes(sec) == sec * 2 * SAMPLE_RATE

\* ------------------------------------------------------------ core/audio
int16(v) == IF v >= 32768 THEN v - 65536 ELSE v

\* np.frombuffer(pcm, int16): little-endian pairs.  Defined for even lengths;
\* an odd length raises ValueError (see ws_frame).
pcm16le_to_float32(pcm) ==
    [i \in 1..(Len(pcm) \div 2) |-> int16(pcm[2 * i - 1] + 256 * pcm[2 * i])]

RECURSIVE SumSq(_)
SumSq(x) == IF x = <<>> THEN 0 ELSE Head(x) * Head(x) + SumSq(Tail(x))

\* rms(x) >= SILENCE_RMS_THRESHOLD, i.e. mean(x*x) + 1e-12 >= threshold^2.
is_voice(chunk) ==
    LET x == pcm16le_to_float32(chunk)
    IN  SumSq(x) * 100 >= Len(x) * ThresholdSq100

\* ------------------------------------------------------------ the inputs
\* Binary frames a client may send (bytes, little-endian samples).
Chunks ==
    { <<>>,                 \* empty frame
      <<7>>,                \* odd length: not whole samples
      <<6, 1>>,             \* one sample 262: just below the threshold
      <<7, 1>>,             \* one sample 263: just above
      <<0, 254, 0, 0>> }    \* two samples -512, 0: voiced

\* Text frames, as sequences of characters.
TextInputs ==
    { <<>>,
      <<"f", "l", "u", "s", "h">>,
      <<" ", "F", "l", "u", "S", "H", "\n">>,
      <<"f", "l", "u", "s", "h", "!">> }

\* What the transcriber may return (already stripped); it may also raise.
TextResults == {"", "hello"}

\* str.strip() and str.lower() on the characters used above.
IsSpace(ch) == ch \in {" ", "\n"}
RECURSIVE LStrip(_)
LStrip(t) == IF t # <<>> /\ IsSpace(Head(t)) THEN LStrip(Tail(t)) ELSE t
RECURSIVE RStrip(_)
RStrip(t) ==
    IF t # <<>> /\ IsSpace(t[Len(t)]) THEN RStrip(SubSeq(t, 1, Len(t) - 1)) ELSE t
LowerCh(ch) ==
    CASE ch = "F" -> "f" [] ch = "L" -> "l" [] ch = "U" -> "u"
      [] ch = "S" -> "s" [] ch = "H" -> "h" [] OTHER -> ch
normalize(t) == LET s == RStrip(LStrip(t)) IN [i \in 1..Len(s) |-> LowerCh(s[i])]

\* ----------------------------------------------------------------- state
VARIABLES
    now,           \* time.monotonic()
    model_loaded,  \* core.model.model is not None
    model_lock,    \* holder of core.model.model_lock, or Free
    waiters,       \* coroutines waiting on model_lock, in arrival order
    pc,            \* where each connection's ws_stt coroutine stands
    state,         \* each connection's BufferState
    sent,          \* the messages the server has sent on each connection
    close_code,    \* the code the server closed the connection with, or None
    site,          \* the call site of the process_buffer call in progress
    audio,         \* the samples handed to the transcriber
    hist,          \* history: the message handled last and the state before it
    pb,            \* the last process_buffer call: utter_duration, text, outcome
    nflush,        \* history: process_buffer calls per connection
    ncalls,        \* history: transcription calls issued per connection
    voiced_seen,   \* history: a frame at or above the threshold was received
    nmsgs          \* history: messages received over all connections

\* The talkback client (src/client): one session of run_session with its
\* capture callback, audio reader, sender and receiver.
VARIABLES
    session,        \* where run_session / connect_and_run stands
    ncaptured,      \* history: frames the device has delivered
    callback,       \* where _audio_callback stands
    callback_frame, \* the frame _audio_callback holds
    recorder_queue, \* CrossPlatformRecorder._queue
    callback_hist,  \* history: the last overrun handled by _audio_callback
    reader,         \* where _audio_reader_task stands
    reader_chunk,   \* the chunk read_chunk returned
    audio_queue,    \* the session's audio_queue
    push_hist,      \* history: the last push onto audio_queue
    pushed,         \* history: ids of the chunks pushed onto audio_queue
    sender,         \* where _sender_task stands
    sender_chunk,   \* the chunk the sender dequeued last
    sender_now,     \* the sender's local `now` (line 120)
    vad,            \* the sender's VADState
    utt_duration,   \* the duration end_utterance returned last
    tail_i,         \* silence frames sent in the tail in progress
    last_log,       \* the sender's last utterance-ended log line
    tx,             \* the frames sent on the WebSocket, in order
    dequeued,       \* history: each dequeued frame and the VAD decision
    last_voiced,    \* history: time of the last frame at or above threshold
    ended_at,       \* history: the time passed to the last end_utterance
    end_ids,        \* history: ids of the frames an end was detected on
    ws_open,        \* the WebSocket connection is open
    stop_event,     \* the session's stop_event
    inbox,          \* server messages not yet returned by ws.recv()
    received,       \* history: every message the server has sent
    handled,        \* history: the messages the receiver has dispatched
    receiver,       \* where _receiver_task stands
    reply_text,     \* the text _handle_transcript is replying to
    response_lock,  \* WebSocketHandler.response_lock is held
    last_response_time,
    metrics,        \* the Metrics counters
    npipeline,      \* history: calls of _handle_transcript
    nsynth,         \* history: calls of tts_client.generate_speech
    replies,        \* history: each non-empty transcript and what became of it
    pipeline,       \* the _handle_transcript calls inside `async with`
    exc,            \* the exception each task ended with
    first_raised,   \* history: the task that raised first
    done_tasks,     \* the `done` set asyncio.wait returned
    owner_exc,      \* what connect_and_run raised to its caller
    run,            \* where run_session stands
    run_done,       \* the `done` set run_session's asyncio.wait returned
    run_exc,        \* what run_session raised to run_with_reconnect
    recorder_running, \* CrossPlatformRecorder._running
    supervisor,     \* where run_with_reconnect stands
    nsessions,      \* history: calls of run_session
    sleep_until     \* when the supervisor's asyncio.sleep returns

\* The reply generator (src/core/llm.py): generate_reply and the module's
\* circuit breaker.
VARIABLES
    breaker_enabled, \* _circuit_breaker is not None
    breaker,         \* the CircuitBreaker: state, failure counter, opened_at
    reply,           \* the call of generate_reply in progress, or the last one
    streak,          \* history: failed backend requests in a row
    nreplies         \* history: calls of generate_reply

\* The text-to-speech server (src/tts/server.py): the coroutine tts on the
\* event loop and the endpoints FastAPI runs on worker threads.
VARIABLES
    max_log_entries, \* settings.MAX_CONVERSATION_LOG_ENTRIES
    runtime_config,  \* the RuntimeConfig object, field by field
    conversation_log,\* the list conversation_log
    semaphore,       \* free slots of _tts_semaphore
    tts_call,        \* the call of tts on the event loop, or the last one
    ntts,            \* POST /tts requests received
    updates,         \* the calls of update_config, one per worker thread
    config_read,     \* the call of get_config and the response it builds
    log_read,        \* the call of get_conversations and its response
    appended         \* history: entries appended since the log was cleared

tts_vars ==
    <<max_log_entries, runtime_config, conversation_log, semaphore, tts_call,
      ntts, updates, config_read, log_read, appended>>

service_vars ==
    <<breaker_enabled, breaker, reply, streak, nreplies, tts_vars>>

client_vars ==
    <<session, ncaptured, callback, callback_frame, recorder_queue,
      callback_hist, reader, reader_chunk, audio_queue, push_hist, pushed,
      sender, sender_chunk, sender_now, vad, utt_duration, tail_i, last_log,
      tx, dequeued, last_voiced, ended_at, end_ids, ws_open, stop_event, inbox, received,
      handled, receiver, reply_text, response_lock, last_response_time,
      metrics, npipeline, nsynth, replies, pipeline, exc, first_raised,
      done_tasks, owner_exc, run, run_done, run_exc, recorder_running,
      supervisor, nsessions, sleep_until>>

server_vars ==
    <<model_loaded, model_lock, waiters, pc, state, sent, close_code, site,
      audio, hist, pb, nflush, ncalls, voiced_seen, nmsgs>>

vars == <<now, model_loaded, model_lock, waiters, pc, state, sent, close_code,
          site, audio, hist, pb, nflush, ncalls, voiced_seen, nmsgs,
          client_vars, service_vars>>

\* BufferState(buf=bytearray())
NewBufferState ==
    [buf |-> <<>>, started |-> FALSE, utt_start_t |-> None,
     last_voice_t |-> None, total_buffered |-> 0]

\* BufferState.reset
reset_keeps_started(s) ==
    [buf |-> <<>>, started |-> s.started, utt_start_t |-> None,
     last_voice_t |-> None, total_buffered |-> 0]
reset_keeps_voice_time(s) ==
    [buf |-> <<>>, started |-> FALSE, utt_start_t |-> None,
     last_voice_t |-> s.last_voice_t, total_buffered |-> 0]
reset(s) ==
    [buf |-> <<>>, started |-> FALSE, utt_start_t |-> None,
     last_voice_t |-> None, total_buffered |-> 0]

\* ws_stt, a frame while not started: a voiced frame starts the utterance,
\* any other frame is dropped.
idle_frame_buffers_silence(s, chunk, t) ==
    [buf |-> s.buf \o chunk, started |-> TRUE, utt_start_t |-> t,
     last_voice_t |-> t, total_buffered |-> Len(chunk)]
idle_frame(s, chunk, t) ==
    IF is_voice(chunk)
    THEN [buf |-> s.buf \o chunk, started |-> TRUE, utt_start_t |-> t,
          last_voice_t |-> t, total_buffered |-> Len(chunk)]
    ELSE s

\* ws_stt, a frame while started: append, add its duration, refresh the
\* time of the last voice.
append_frame_forgets_duration(s, chunk, t) ==
    [s EXCEPT !.buf = @ \o chunk,
              !.last_voice_t = IF is_voice(chunk) THEN t ELSE @]
append_frame(s, chunk, t) ==
    [s EXCEPT !.buf = @ \o chunk,
              !.total_buffered = @ + Len(chunk),
              !.last_voice_t = IF is_voice(chunk) THEN t ELSE @]

\* ws_stt, the limits checked after an append, in the code's order.
limit_without_silence(s, t) ==
    IF s.total_buffered >= SecondsToBytes(MAX_BUFFER_SECONDS) THEN "max_buffer"
    ELSE IF s.utt_start_t # None /\ t - s.utt_start_t >= MAX_UTTERANCE_SECONDS
    THEN "max_utterance"
    ELSE "none"
limit_silence_first(s, t) ==
    IF s.last_voice_t # None /\ t - s.last_voice_t >= SILENCE_MAX_SECONDS
       /\ Len(s.buf) > 0
    THEN "silence"
    ELSE IF s.total_buffered >= SecondsToBytes(MAX_BUFFER_SECONDS)
    THEN "max_buffer"
    ELSE IF s.utt_start_t # None /\ t - s.utt_start_t >= MAX_UTTERANCE_SECONDS
    THEN "max_utterance"
    ELSE "none"
limit(s, t) ==
    IF s.total_buffered >= SecondsToBytes(MAX_BUFFER_SECONDS) THEN "max_buffer"
    ELSE IF s.utt_start_t # None /\ t - s.utt_start_t >= MAX_UTTERANCE_SECONDS
    THEN "max_utterance"
    ELSE IF s.last_voice_t # None /\ t - s.last_voice_t >= SILENCE_MAX_SECONDS
            /\ Len(s.buf) > 0
    THEN "silence"
    ELSE "none"

\* ws_stt, the text command that flushes.
is_flush_even_if_empty(text, s) == normalize(text) = <<"f", "l", "u", "s", "h">>
is_flush(text, s) ==
    normalize(text) = <<"f", "l", "u", "s", "h">> /\ Len(s.buf) > 0

\* process_buffer: the buffer is long enough to be transcribed.
needs_transcription_strict(s) ==
    Len(s.buf) > SecondsToBytes(MIN_UTTERANCE_SECONDS)
needs_transcription(s) ==
    ~ (Len(s.buf) < SecondsToBytes(MIN_UTTERANCE_SECONDS))

\* process_buffer: the transcript message for a result.
transcript_always(text, dur) ==
    <<[type |-> MSG_TYPE_TRANSCRIPT, text |-> text, duration |-> dur]>>
transcript(text, dur) ==
    IF text # ""
    THEN <<[type |-> MSG_TYPE_TRANSCRIPT, text |-> text, duration |-> dur]>>
    ELSE <<>>

\* ws_stt: what follows process_buffer at each call site.
after_flush_unacknowledged(cause) == <<>>
after_flush(cause) ==
    IF cause = "flush" THEN <<[type |-> MSG_TYPE_FLUSHED]>> ELSE <<>>

\* ws_stt: the first message on a connection.
greeting_missing == <<>>
greeting == <<[type |-> MSG_TYPE_READY, sr |-> SAMPLE_RATE]>>

\* asyncio.Lock.acquire returns at once iff the lock is free and none waits.
lock_ignored == TRUE
lock_available == model_lock = Free /\ waiters = <<>>

NoHist == [kind |-> "none", cause |-> "none", prelen |-> 0,
           nsent |-> 0, ncalls |-> 0, nflush |-> 0]
NoCall == [dur |-> 0, called |-> FALSE, done |-> FALSE, raised |-> FALSE,
           text |-> ""]

\* ------------------------------------------------- the client: settings
\* Frames the capture device delivers in one session.
MaxFrames == 4
\* Messages the server sends in one session.
MaxServerMsgs == 3
\* The clock reading up to which the capture and the sender are followed.
MaxClock == 4
\* Calls of generate_reply that are followed.
MaxCalls == 4
\* The sessions run_with_reconnect is followed through.
MaxSessions == 2
\* Messages the server sends in one session of the supervised client.
MaxSupervisedMsgs == 1
\* Frames captured, and messages the server sends, while replies are counted.
MaxSentFrames == 1
MaxAnsweredMsgs == 2

\* client/app/config.py, a small configuration: one sample per chunk, a
\* chunk per second, queues of two chunks.  CrossPlatformRecorder creates
\* its queue with maxsize=200; the model keeps the same queue with room for
\* recorder_maxsize chunks.
chunk_frames == 1
bytes_per_chunk == chunk_frames * 2
silence_max_seconds == 2
min_utterance_seconds == 3
utterance_cooldown == 1
silence_tail_frames == 2
max_size == 2
recorder_maxsize == 2
reconnect_delay == 1
cooldown_seconds == 2
\* (silence_rms_threshold * 32768)^2 less the 1e-12 epsilon of
\* pcm16le_to_rms, times 100 and rounded up, for a threshold of 0.008.
silence_threshold_sq100 == 6871948

\* The tasks connect_and_run creates.
Tasks == {"sender", "receiver"}

\* ------------------------------------------------------ client/app/audio
\* rms >= vad.silence_threshold for rms = pcm16le_to_rms(chunk): 0.0 for no
\* bytes, else sqrt(mean(x*x) + 1e-12) over the int16 samples / 32768.
pcm16le_to_rms_at_threshold(pcm_bytes) ==
    IF pcm_bytes = <<>> THEN FALSE
    ELSE LET x == pcm16le_to_float32(pcm_bytes)
         IN  SumSq(x) * 100 >= Len(x) * silence_threshold_sq100

\* b"\x00" * bytes_per_chunk
create_silence_frame(n) == [i \in 1..n |-> 0]

\* A captured frame: its bytes, and its number in capture order (history;
\* 0 marks the frame made by create_silence_frame).
NoFrame == [id |-> 0, data |-> <<>>]
FrameData == { <<7, 1>>, <<0, 0>> }

\* asyncio.Queue: full, put_nowait and get_nowait on the deque.
full(q, maxsize) == Len(q) >= maxsize
put_front(q, item) == <<item>> \o q
put_nowait(q, item) == Append(q, item)
get_nowait(q) == Tail(q)

\* -------------------------------------------------------- client/app/vad
NewVADState ==
    [in_utterance |-> FALSE, utterance_start |-> 0, last_voice_time |-> 0,
     last_utterance_end |-> 0]

can_start_always(v, t) == TRUE
can_start_utterance(v, t) == (t - v.last_utterance_end) >= utterance_cooldown

start_utterance(v, t) ==
    [v EXCEPT !.in_utterance = TRUE, !.utterance_start = t,
              !.last_voice_time = t]

update_voice_activity_keeps_end(v, t) ==
    [v EXCEPT !.last_voice_time = v.last_utterance_end]
update_voice_activity(v, t) == [v EXCEPT !.last_voice_time = t]

should_end_without_state(v, t) ==
    (t - v.last_voice_time) >= silence_max_seconds
should_end_utterance(v, t) ==
    IF ~ v.in_utterance THEN FALSE
    ELSE (t - v.last_voice_time) >= silence_max_seconds

\* end_utterance: the state it leaves, and the duration it returns.
end_utterance(v, t) ==
    [v EXCEPT !.in_utterance = FALSE, !.last_utterance_end = t]
utterance_duration(v, t) == t - v.utterance_start

is_utterance_valid(duration) == duration >= min_utterance_seconds

\* _sender_task, lines 124-134: the VAD decision on a dequeued chunk.  skip
\* is the `continue` of a chunk outside an utterance.
vad_decision_skips_silence(v, voice, t) ==
    LET starts == ~ v.in_utterance /\ voice /\ can_start_utterance(v, t)
        v1 == IF starts THEN start_utterance(v, t) ELSE v
        v2 == IF voice THEN update_voice_activity(v1, t) ELSE v1
    IN  IF ~ voice \/ (~ v.in_utterance /\ ~ starts)
        THEN [vad |-> v, skip |-> TRUE]
        ELSE [vad |-> v2, skip |-> FALSE]
vad_decision(v, voice, t) ==
    LET starts == ~ v.in_utterance /\ voice /\ can_start_utterance(v, t)
        v1 == IF starts THEN start_utterance(v, t) ELSE v
        v2 == IF voice THEN update_voice_activity(v1, t) ELSE v1
    IN  IF ~ v.in_utterance /\ ~ starts
        THEN [vad |-> v, skip |-> TRUE]
        ELSE [vad |-> v2, skip |-> FALSE]

\* The tail is complete after silence_tail_frames sends (range(n)).
tail_one_short(i) == i + 1 >= silence_tail_frames
tail_complete(i) == i >= silence_tail_frames

\* `while not self.stop_event.is_set()`: where a loop goes from its head.
loop_head(stop, waiting) == IF stop THEN "done" ELSE waiting

\* -------------------------------------------------- the server's messages
\* raw is what ws.recv() returned: bytes, a JSON object, or a text that
\* json.loads refuses.  has_text tells whether the object has a "text".
Msg(raw, type, has_text, text) ==
    [raw |-> raw, type |-> type, has_text |-> has_text, text |-> text]
ServerMsgs ==
    { Msg("bytes", "", FALSE, <<>>),
      Msg("object", MSG_TYPE_TRANSCRIPT, TRUE, <<"h", "i">>),
      Msg("object", MSG_TYPE_TRANSCRIPT, TRUE, <<" ">>),
      Msg("object", MSG_TYPE_TRANSCRIPT, TRUE, <<>>),
      Msg("object", MSG_TYPE_TRANSCRIPT, FALSE, <<>>),
      Msg("object", MSG_TYPE_ERROR, FALSE, <<>>),
      Msg("object", MSG_TYPE_FLUSHED, FALSE, <<>>),
      Msg("invalid", "", FALSE, <<>>) }

\* _receiver_task, lines 170-185: what the loop does with a message.
dispatch_error_ignored(raw_msg) ==
    IF raw_msg.raw = "bytes" THEN "ignore"
    ELSE IF raw_msg.raw = "invalid" THEN "JSONDecodeError"
    ELSE IF raw_msg.type = "transcript" THEN "transcript"
    ELSE "ignore"
dispatch(raw_msg) ==
    IF raw_msg.raw = "bytes" THEN "ignore"
    ELSE IF raw_msg.raw = "invalid" THEN "JSONDecodeError"
    ELSE IF raw_msg.type = "transcript" THEN "transcript"
    ELSE IF raw_msg.type = "error" THEN "error"
    ELSE "ignore"

\* (msg.get("text") or "").strip()
transcript_text_unstripped(msg) == IF msg.has_text THEN msg.text ELSE <<>>
transcript_text(msg) ==
    RStrip(LStrip(IF msg.has_text THEN msg.text ELSE <<>>))

NewMetrics ==
    [transcriptions |-> 0, responses_generated |-> 0,
     responses_skipped |-> 0, stt_errors |-> 0, tts_errors |-> 0]

\* Metrics.record_*: each call adds one to its counter.
record_transcription(m) == [m EXCEPT !.transcriptions = @ + 1]
record_response(m) == [m EXCEPT !.responses_generated = @ + 1]
record_skip(m) == [m EXCEPT !.responses_skipped = @ + 1]
record_stt_error(m) == [m EXCEPT !.stt_errors = @ + 1]
record_tts_error_uncounted(m) == m
record_tts_error(m) == [m EXCEPT !.tts_errors = @ + 1]

\* _handle_transcript, lines 213-214 and 222-223: the reply cooldown.
in_cooldown(t, lrt) == (t - lrt) < cooldown_seconds

\* _handle_transcript, lines 227-250: last_response_time after a reply that
\* ended as `outcome` at time t.  Only line 242, after playback, assigns it.
reply_time_on_failure(outcome, lrt, t) ==
    IF outcome \in {"played", "failed"} THEN t ELSE lrt
reply_time(outcome, lrt, t) == IF outcome = "played" THEN t ELSE lrt

\* `async with self.response_lock`: the calls of _handle_transcript that
\* are inside the block.
enter(p, n) == p \cup {n}
leave_held(p, n) == p
leave(p, n) == p \ {n}

\* The outcome of the transcript handled last is known.
Outcome(r, o) == [r EXCEPT ![Len(r)].outcome = o]

NoOverrun == [seen |-> FALSE, len |-> 0, evicted |-> FALSE, kept |-> TRUE]
NoPush == [pre |-> <<>>, item |-> NoFrame, post |-> <<>>, blocked |-> FALSE]

\* Before run_session: nothing captured, no task, no connection.
NoSession ==
    /\ session = "init"
    /\ ncaptured = 0
    /\ callback = "idle"
    /\ callback_frame = NoFrame
    /\ recorder_queue = <<>>
    /\ callback_hist = NoOverrun
    /\ reader = "none"
    /\ reader_chunk = NoFrame
    /\ audio_queue = <<>>
    /\ push_hist = NoPush
    /\ pushed = <<>>
    /\ sender = "none"
    /\ sender_chunk = NoFrame
    /\ sender_now = 0
    /\ vad = NewVADState
    /\ utt_duration = 0
    /\ tail_i = 0
    /\ last_log = "none"
    /\ tx = <<>>
    /\ dequeued = <<>>
    /\ last_voiced = None
    /\ ended_at = None
    /\ end_ids = {}
    /\ ws_open = FALSE
    /\ stop_event = FALSE
    /\ inbox = <<>>
    /\ received = <<>>
    /\ handled = <<>>
    /\ receiver = "none"
    /\ reply_text = <<>>
    /\ response_lock = FALSE
    /\ last_response_time = 0
    /\ metrics = NewMetrics
    /\ npipeline = 0
    /\ nsynth = 0
    /\ replies = <<>>
    /\ pipeline = {}
    /\ exc = [t \in Tasks |-> "none"]
    /\ first_raised = "none"
    /\ done_tasks = {}
    /\ owner_exc = "none"
    /\ run = "none"
    /\ run_done = {}
    /\ run_exc = "none"
    /\ recorder_running = FALSE
    /\ supervisor = "session"
    /\ nsessions = 0
    /\ sleep_until = 0

\* ------------------------------------------------ the reply generator
\* core/config.py, lines 45-51, a small configuration: three attempts, a
\* backoff of one second, a breaker that opens at the second failure in a
\* row and stays open for two seconds.
OLLAMA_RETRY_ATTEMPTS == 3
OLLAMA_RETRY_BACKOFF == 1
CIRCUIT_BREAKER_FAIL_MAX == 2
CIRCUIT_BREAKER_RESET_TIMEOUT == 2

RECURSIVE Pow2(_)
Pow2(n) == IF n = 0 THEN 1 ELSE 2 * Pow2(n - 1)

\* user_text.strip()
strip(t) == RStrip(LStrip(t))

\* _generate_with_retry, lines 131-132.
wait_time(attempt) == OLLAMA_RETRY_BACKOFF * Pow2(attempt)
is_last_attempt(attempt) == ~ (attempt < OLLAMA_RETRY_ATTEMPTS - 1)

\* CircuitBreaker(fail_max, reset_timeout), lines 33-38: a new breaker is
\* closed and has counted no failure.
NewCircuitBreaker == [state |-> "closed", counter |-> 0, opened_at |-> 0]

\* The breaker before a call (line 112): a closed or half-open breaker
\* lets the call through; an open one refuses it with CircuitBreakerError
\* until reset_timeout after it opened, and then lets one trial call
\* through, half-open.
still_open(b, t) ==
    b.state = "open" /\ t < b.opened_at + CIRCUIT_BREAKER_RESET_TIMEOUT
before_call(b, t) ==
    IF b.state = "open" /\ ~ still_open(b, t)
    THEN [b EXCEPT !.state = "half-open"] ELSE b

\* The breaker after a call that returned: the counter starts again and a
\* half-open breaker closes.
on_success(b) == [b EXCEPT !.state = "closed", !.counter = 0]

\* The breaker after a call that raised: the failure is counted; the
\* breaker opens when the trial call of a half-open breaker fails and when
\* a closed breaker has counted fail_max failures.
trips(b) ==
    b.state = "half-open" \/ b.counter + 1 >= CIRCUIT_BREAKER_FAIL_MAX
on_failure(b, t) ==
    IF trips(b)
    THEN [state |-> "open", counter |-> b.counter + 1, opened_at |-> t]
    ELSE [b EXCEPT !.counter = @ + 1]

\* What leaves the decorated _call_ollama when the request raised
\* RequestException: a breaker that opens on the failure raises
\* CircuitBreakerError in its place.
breaker_raises(b) ==
    IF trips(b) THEN "CircuitBreakerError" ELSE "RequestException"

\* generate_reply, lines 83-85, _generate_with_circuit_breaker, lines
\* 113-116, and _generate_with_retry, line 140: the exception and the
\* message the caller of generate_reply gets for an exception e.
surface_raw_breaker_error(e) ==
    IF e = "CircuitBreakerError"
    THEN [out |-> "CircuitBreakerError", message |-> "open"]
    ELSE [out |-> "LLMError", message |-> "backend"]
surface(e) ==
    IF e = "CircuitBreakerError"
    THEN [out |-> "LLMError", message |-> "open"]
    ELSE [out |-> "LLMError", message |-> "backend"]

NoCallYet ==
    [pc |-> "idle", text |-> <<>>, attempt |-> 0, requests |-> 0,
     waits |-> <<>>, wake_at |-> 0, last |-> "none", out |-> "none",
     message |-> "none", result |-> "none", before |-> "none",
     input |-> <<>>, at |-> 0, opened_at |-> 0]

\* The module as imported: the breaker exists if CIRCUIT_BREAKER_ENABLED.
NoReply(enabled) ==
    /\ breaker_enabled = enabled
    /\ breaker = NewCircuitBreaker
    /\ reply = NoCallYet
    /\ streak = 0
    /\ nreplies = 0

\* ------------------------------------------- the text-to-speech server
\* core/config.py, lines 20, 61 and 63, a small configuration: texts of at
\* most three characters and a log of two entries.
TTS_MAX_CONCURRENT == 4
TTS_MAX_TEXT_LENGTH == 3
MAX_CONVERSATION_LOG_ENTRIES == 2
DEFAULT_FALLBACK == "Sorry, can you repeat that?"

\* The fields of RuntimeConfig followed here, in the order update_config
\* assigns them and get_config reads them.  A value is the name of the
\* update it came from ("0": the settings the server started with); "x" is
\* a speaker_id that int() rejects.
ConfigFields == <<"personality", "model", "speaker_id">>
\* RuntimeConfig.__init__, lines 58-65.
NewRuntimeConfig == [f \in {"personality", "model", "speaker_id"} |-> "0"]

\* int(config["speaker_id"]), line 282, raises ValueError for "x".
converts(field, value) == ~ (field = "speaker_id" /\ value = "x")

\* TTSReq.text, lines 91-96: FastAPI answers 422 without calling tts when
\* the text is shorter than min_length or longer than max_length.
valid(text) == Len(text) >= 1 /\ Len(text) <= TTS_MAX_TEXT_LENGTH

\* generate_reply(...) or DEFAULT_FALLBACK, lines 372-376.
or_fallback(generated) ==
    IF generated = "" THEN DEFAULT_FALLBACK ELSE generated

\* Lines 431-432: the log is over its limit; pop(0).
over_limit(log, most) == most > 0 /\ Len(log) > most
pop_first(log) == Tail(log)

\* conversation_log[-limit:] if limit else conversation_log, line 311.
recent(log, most) ==
    IF most = 0 \/ most >= Len(log) THEN log
    ELSE SubSeq(log, Len(log) - most + 1, Len(log))

\* No call of tts yet: nothing read, nothing called, no response.
NoTtsCall ==
    [pc |-> "idle", n |-> 0, text |-> <<>>, personality |-> "none",
     model |-> "none", speaker_id |-> "none", bot_response |-> "none",
     llm_called |-> FALSE, synth_called |-> FALSE, logged |-> FALSE,
     status |-> 0]
\* No call of update_config, get_config or get_conversations yet.  pc is
\* the field the call is at (0: no call in progress).
NoUpdate == [pc |-> 0, config |-> NewRuntimeConfig, status |-> 0]
NoConfigRead == [pc |-> 0, seen |-> NewRuntimeConfig, done |-> FALSE]
NoLogRead == [pc |-> 0, limit |-> 0, seen |-> <<>>, total |-> 0]
\* The calls of update_config are followed one at a time.
UpdateCalls == {"u1"}

\* The module as imported, lines 51-70.
NewTTSServer(most) ==
    /\ max_log_entries = most
    /\ runtime_config = NewRuntimeConfig
    /\ conversation_log = <<>>
    /\ semaphore = TTS_MAX_CONCURRENT
    /\ tts_call = NoTtsCall
    /\ ntts = 0
    /\ updates = [u \in UpdateCalls |-> NoUpdate]
    /\ config_read = NoConfigRead
    /\ log_read = NoLogRead
    /\ appended = <<>>

InitServer ==
    /\ now = 0
    /\ model_loaded \in BOOLEAN
    /\ model_lock = Free
    /\ waiters = <<>>
    /\ pc = [c \in Conns |-> "init"]
    /\ state = [c \in Conns |-> NewBufferState]
    /\ sent = [c \in Conns |-> <<>>]
    /\ close_code = [c \in Conns |-> None]
    /\ site = [c \in Conns |-> "none"]
    /\ audio = [c \in Conns |-> <<>>]
    /\ hist = [c \in Conns |-> NoHist]
    /\ pb = [c \in Conns |-> NoCall]
    /\ nflush = [c \in Conns |-> 0]
    /\ ncalls = [c \in Conns |-> 0]
    /\ voiced_seen = [c \in Conns |-> FALSE]
    /\ nmsgs = 0
    /\ NoSession

\* The services as started with the default settings.
Init ==
    InitServer /\ NoReply(TRUE) /\ NewTTSServer(MAX_CONVERSATION_LOG_ENTRIES)

\* time.monotonic() advances.
Tick_flushing_overdue ==
    LET overdue(c) == /\ pc[c] = "recv"
                      /\ state[c].started
                      /\ limit(state[c], now + 1) # "none"
    IN  /\ now < MaxTime
        /\ now' = now + 1
        /\ state' = [c \in Conns |->
               IF overdue(c) THEN reset(state[c]) ELSE state[c]]
        /\ nflush' = [c \in Conns |->
               IF overdue(c) THEN nflush[c] + 1 ELSE nflush[c]]
        /\ UNCHANGED <<model_loaded, model_lock, waiters, pc, sent,
                       close_code, site, audio, hist, pb, ncalls,
                       voiced_seen, nmsgs>>
        /\ UNCHANGED <<client_vars, service_vars>>
Tick ==
    /\ now < MaxTime
    /\ now' = now + 1
    /\ UNCHANGED <<model_loaded, model_lock, waiters, pc, state, sent,
                   close_code, site, audio, hist, pb, nflush, ncalls,
                   voiced_seen, nmsgs>>
    /\ UNCHANGED <<client_vars, service_vars>>

\* ws_stt up to the first receive: accept, refuse without a model, else
\* create the BufferState and send ready.
Connect(c) ==
    /\ pc[c] = "init"
    /\ IF model_loaded
       THEN /\ pc' = [pc EXCEPT ![c] = "recv"]
            /\ state' = [state EXCEPT ![c] = NewBufferState]
            /\ sent' = [sent EXCEPT ![c] = @ \o greeting]
            /\ UNCHANGED close_code
       ELSE /\ pc' = [pc EXCEPT ![c] = "closed"]
            /\ close_code' = [close_code EXCEPT ![c] = 1011]
            /\ UNCHANGED <<state, sent>>
    /\ UNCHANGED <<now, model_loaded, model_lock, waiters, site, audio, hist,
                   pb, nflush, ncalls, voiced_seen, nmsgs>>
    /\ UNCHANGED <<client_vars, service_vars>>

\* The exception handler of ws_stt: an error message with str(e), then
\* close(1011).
error_message(e) == [type |-> MSG_TYPE_ERROR, detail |-> e]
Fail_and_receive_on(c, e) ==
    /\ sent' = [sent EXCEPT ![c] = Append(@, error_message(e))]
    /\ UNCHANGED <<close_code, pc>>
Fail(c, e) ==
    /\ sent' = [sent EXCEPT ![c] = Append(@, error_message(e))]
    /\ close_code' = [close_code EXCEPT ![c] = 1011]
    /\ pc' = [pc EXCEPT ![c] = "closed"]

\* process_buffer entered at call site `cause` with the buffer state s, up
\* to its first suspension: a short buffer returns at once and the caller
\* acknowledges (explicit flush) and resets; otherwise the request is
\* counted, the samples are converted and the coroutine takes model_lock
\* or queues for it.
EnterProcessBuffer(c, s, cause) ==
    /\ nflush' = [nflush EXCEPT ![c] = @ + 1]
    /\ IF ~ needs_transcription(s)
       THEN /\ state' = [state EXCEPT ![c] = reset(s)]
            /\ sent' = [sent EXCEPT ![c] = @ \o after_flush(cause)]
            /\ pb' = [pb EXCEPT ![c] = [dur |-> Len(s.buf), called |-> FALSE,
                                        done |-> TRUE, raised |-> FALSE,
                                        text |-> ""]]
            /\ UNCHANGED <<pc, site, audio, ncalls, model_lock, waiters>>
       ELSE /\ state' = [state EXCEPT ![c] = s]
            /\ ncalls' = [ncalls EXCEPT ![c] = @ + 1]
            /\ audio' = [audio EXCEPT ![c] = pcm16le_to_float32(s.buf)]
            /\ site' = [site EXCEPT ![c] = cause]
            /\ pb' = [pb EXCEPT ![c] = [dur |-> Len(s.buf), called |-> TRUE,
                                        done |-> FALSE, raised |-> FALSE,
                                        text |-> ""]]
            /\ IF lock_available
               THEN /\ model_lock' = c
                    /\ pc' = [pc EXCEPT ![c] = "run"]
                    /\ UNCHANGED waiters
               ELSE /\ waiters' = Append(waiters, c)
                    /\ pc' = [pc EXCEPT ![c] = "lock"]
                    /\ UNCHANGED model_lock
            /\ UNCHANGED sent
    /\ UNCHANGED close_code

Handled(c, kind, cause) ==
    [kind |-> kind, cause |-> cause, prelen |-> Len(state[c].buf),
     nsent |-> Len(sent[c]), ncalls |-> ncalls[c], nflush |-> nflush[c]]

\* ws_stt, one binary message read at time t, up to the next receive or
\* the first suspension inside process_buffer.
HandleFrame(c, chunk, t) ==
    LET s == state[c]
        odd == Len(chunk) % 2 = 1
        s2 == append_frame(s, chunk, t)
        cause == IF chunk = <<>> \/ odd \/ ~ s.started
                 THEN "none" ELSE limit(s2, t)
    IN  /\ pc[c] = "recv"
        /\ nmsgs' = nmsgs + 1
        /\ hist' = [hist EXCEPT ![c] = Handled(c, "frame", cause)]
        /\ voiced_seen' = [voiced_seen EXCEPT
               ![c] = @ \/ (chunk # <<>> /\ ~ odd /\ is_voice(chunk))]
        /\ IF chunk = <<>>
           THEN UNCHANGED <<state, sent, pc, close_code, site, audio, pb,
                            nflush, ncalls, model_lock, waiters>>
           ELSE IF odd
           THEN /\ Fail(c, "buffer size must be a multiple of element size")
                /\ UNCHANGED <<state, site, audio, pb, nflush, ncalls,
                               model_lock, waiters>>
           ELSE IF ~ s.started
           THEN /\ state' = [state EXCEPT ![c] = idle_frame(s, chunk, t)]
                /\ UNCHANGED <<sent, pc, close_code, site, audio, pb,
                               nflush, ncalls, model_lock, waiters>>
           ELSE IF cause = "none"
           THEN /\ state' = [state EXCEPT ![c] = s2]
                /\ UNCHANGED <<sent, pc, close_code, site, audio, pb,
                               nflush, ncalls, model_lock, waiters>>
           ELSE EnterProcessBuffer(c, s2, cause)
        /\ UNCHANGED model_loaded
        /\ UNCHANGED <<client_vars, service_vars>>

RecvFrame(c, chunk) ==
    /\ HandleFrame(c, chunk, now)
    /\ UNCHANGED now

\* ws_stt, one text message.
RecvText(c, text) ==
    LET s == state[c]
        cause == IF is_flush(text, s) THEN "flush" ELSE "none"
    IN  /\ pc[c] = "recv"
        /\ nmsgs' = nmsgs + 1
        /\ hist' = [hist EXCEPT ![c] =
               [Handled(c, "text", cause) EXCEPT
                   !.kind = IF normalize(text) = <<"f", "l", "u", "s", "h">>
                            THEN "flush" ELSE "text"]]
        /\ IF cause = "flush"
           THEN EnterProcessBuffer(c, s, "flush")
           ELSE UNCHANGED <<state, sent, pc, close_code, site, audio, pb,
                            nflush, ncalls, model_lock, waiters>>
        /\ UNCHANGED <<now, model_loaded, voiced_seen>>
        /\ UNCHANGED <<client_vars, service_vars>>

\* process_buffer resumes with model_lock: the first waiter takes the free
\* lock and hands the samples to the worker thread.
AcquireLock(c) ==
    /\ pc[c] = "lock"
    /\ model_lock = Free
    /\ waiters # <<>> /\ Head(waiters) = c
    /\ model_lock' = c
    /\ waiters' = Tail(waiters)
    /\ pc' = [pc EXCEPT ![c] = "run"]
    /\ UNCHANGED <<now, model_loaded, state, sent, close_code, site, audio,
                   hist, pb, nflush, ncalls, voiced_seen, nmsgs>>
    /\ UNCHANGED <<client_vars, service_vars>>

\* The worker thread returns a text: the lock is released, a transcript is
\* sent for a non-empty text, and the caller acknowledges (explicit flush)
\* and resets.
TranscribeDone(c, text) ==
    /\ pc[c] = "run"
    /\ model_lock' = Free
    /\ sent' = [sent EXCEPT ![c] =
           @ \o transcript(text, pb[c].dur) \o after_flush(site[c])]
    /\ state' = [state EXCEPT ![c] = reset(@)]
    /\ pb' = [pb EXCEPT ![c] = [@ EXCEPT !.done = TRUE, !.text = text]]
    /\ site' = [site EXCEPT ![c] = "none"]
    /\ audio' = [audio EXCEPT ![c] = <<>>]
    /\ pc' = [pc EXCEPT ![c] = "recv"]
    /\ UNCHANGED <<now, model_loaded, waiters, close_code, hist, nflush,
                   ncalls, voiced_seen, nmsgs>>
    /\ UNCHANGED <<client_vars, service_vars>>

\* The transcriber raises: the lock is released and the exception handler
\* of ws_stt ends the connection; the buffer is not reset.
TranscribeRaise(c) ==
    /\ pc[c] = "run"
    /\ model_lock' = Free
    /\ Fail(c, "transcription failed")
    /\ pb' = [pb EXCEPT ![c] = [@ EXCEPT !.done = TRUE, !.raised = TRUE]]
    /\ UNCHANGED <<now, model_loaded, waiters, state, site, audio, hist,
                   nflush, ncalls, voiced_seen, nmsgs>>
    /\ UNCHANGED <<client_vars, service_vars>>

\* receive returns websocket.disconnect: the loop ends.
Disconnect(c) ==
    /\ pc[c] = "recv"
    /\ pc' = [pc EXCEPT ![c] = "closed"]
    /\ UNCHANGED <<now, model_loaded, model_lock, waiters, state, sent,
                   close_code, site, audio, hist, pb, nflush, ncalls,
                   voiced_seen, nmsgs>>
    /\ UNCHANGED <<client_vars, service_vars>>

\* ------------------------------------------------- one session, any input
\* A single connection never finds model_lock taken, so it never waits for
\* it: AcquireLock belongs to the specification with several connections.
Next ==
    \/ Tick
    \/ \E c \in Session : Connect(c)
    \/ \E c \in Session, chunk \in Chunks :
           nmsgs < MaxMsgs /\ RecvFrame(c, chunk)
    \/ \E c \in Session, text \in TextInputs :
           nmsgs < MaxMsgs /\ RecvText(c, text)
    \/ \E c \in Session, text \in TextResults : TranscribeDone(c, text)
    \/ \E c \in Session : TranscribeRaise(c)
    \/ \E c \in Session : Disconnect(c)

Spec == Init /\ [][Next]_vars

\* --------------------------------- several connections sharing model_lock
\* All frames are read at the same instant, so only the explicit flush and
\* the MAX_BUFFER_SECONDS limit call process_buffer.
\* A short voiced frame, a voiced frame of MIN_UTTERANCE_SECONDS, and the
\* flush command.
SharedChunks == { <<7, 1>>, <<0, 254, 0, 0, 0, 0>> }
SharedTexts == { <<"f", "l", "u", "s", "h">> }

NextShared ==
    \/ \E c \in Conns : Connect(c)
    \/ \E c \in Conns, chunk \in SharedChunks :
           nmsgs < MaxSharedMsgs /\ RecvFrame(c, chunk)
    \/ \E c \in Conns, text \in SharedTexts :
           nmsgs < MaxSharedMsgs /\ RecvText(c, text)
    \/ \E c \in Conns : AcquireLock(c)
    \/ \E c \in Conns, text \in TextResults : TranscribeDone(c, text)
    \/ \E c \in Conns : TranscribeRaise(c)
    \/ \E c \in Conns : Disconnect(c)

SpecShared == Init /\ [][NextShared]_vars

\* ------------------------------ one session fed speech, then silence
\* A capture streamed in real time in frames of one sample: each frame is
\* read one frame duration after the one before.  The speech lasts just
\* over MIN_UTTERANCE_SECONDS and the silence after it just over
\* SILENCE_MAX_SECONDS.
VoicedFrames == MIN_UTTERANCE_SECONDS * SAMPLE_RATE + 1
SilentFrames == SILENCE_MAX_SECONDS * SAMPLE_RATE + 1
VoicedFrameChunks == { <<7, 1>>, <<0, 254>>, <<0, 2>> }
SilentFrameChunks == { <<6, 1>>, <<0, 0>> }

\* Seconds of audio in a chunk.
Seconds(chunk) == Len(chunk) \div (2 * SAMPLE_RATE)

StreamVoiced(c, chunk) ==
    /\ nmsgs < VoicedFrames
    /\ HandleFrame(c, chunk, now)
    /\ now' = now + Seconds(chunk)

StreamSilent(c, chunk) ==
    /\ nmsgs >= VoicedFrames
    /\ nmsgs < VoicedFrames + SilentFrames
    /\ HandleFrame(c, chunk, now)
    /\ now' = now + Seconds(chunk)

InitStream == Init /\ model_loaded

NextStream ==
    \/ \E c \in Session : Connect(c)
    \/ \E c \in Session, chunk \in VoicedFrameChunks : StreamVoiced(c, chunk)
    \/ \E c \in Session, chunk \in SilentFrameChunks : StreamSilent(c, chunk)
    \/ \E c \in Session, text \in TextResults : TranscribeDone(c, text)
    \/ \E c \in Session : TranscribeRaise(c)

SpecStream == InitStream /\ [][NextStream]_vars

\* ----------------------------------------- one session at its limits
\* A silent frame, a voiced frame, and a voiced frame as long as
\* MAX_BUFFER_SECONDS.
LimitChunks ==
    { <<6, 1>>, <<7, 1>>, <<0, 254, 0, 254, 0, 0, 0, 0, 0, 0, 0, 0>> }

NextLimits ==
    \/ Tick
    \/ \E c \in Session : Connect(c)
    \/ \E c \in Session, chunk \in LimitChunks :
           nmsgs < MaxMsgs /\ RecvFrame(c, chunk)
    \/ \E c \in Session, text \in TextResults : TranscribeDone(c, text)

SpecLimits == InitStream /\ [][NextLimits]_vars

\* ------------------------------------------------------------ properties
MinBytes == SecondsToBytes(MIN_UTTERANCE_SECONDS)
AutoCauses == {"max_buffer", "max_utterance", "silence"}

\* The messages sent while handling the message handled last.
NewMsgs(c) == SubSeq(sent[c], hist[c].nsent + 1, Len(sent[c]))
OfType(msgs, ty) == SelectSeq(msgs, LAMBDA m : m.type = ty)

\* C1: in every state of a session, total_buffered is the duration of the
\* bytes in buf: total_buffered = len(buf) / 2 / SAMPLE_RATE, compared in
\* bytes (both sides times 2 * SAMPLE_RATE).
C1_TotalBufferedIsBufferLength ==
    \A c \in Conns : state[c].total_buffered = Len(state[c].buf)

\* Three frames accumulated since the last reset.
C1_Witness ==
    \E c \in Conns :
        /\ pc[c] = "recv"
        /\ hist[c].kind = "frame" /\ hist[c].cause = "none"
        /\ hist[c].prelen >= 6
        /\ Len(state[c].buf) > hist[c].prelen

\* C2: between two message-handling steps, started holds exactly when buf
\* is not empty.
C2_StartedIffBuffered ==
    \A c \in Conns :
        pc[c] = "recv" => (state[c].started <=> state[c].buf # <<>>)

\* A session that flushed and then started a second utterance.
C2_Witness ==
    \E c \in Conns :
        pc[c] = "recv" /\ nflush[c] >= 1 /\ state[c].started

\* C3: once the frame that triggered a flush by MAX_BUFFER_SECONDS,
\* MAX_UTTERANCE_SECONDS or the silence timeout has been handled, the
\* buffer is empty, started is false, both timestamps are unset and
\* total_buffered is 0, with or without a transcription or a transcript.
C3_AutoFlushResets ==
    \A c \in Conns :
        (pc[c] = "recv" /\ hist[c].cause \in AutoCauses) =>
            /\ state[c].buf = <<>>
            /\ ~ state[c].started
            /\ state[c].utt_start_t = None
            /\ state[c].last_voice_t = None
            /\ state[c].total_buffered = 0

\* A silence flush of a buffer too short to transcribe, in a session that
\* earlier emitted a transcript.
C3_Witness ==
    \E c \in Conns :
        /\ pc[c] = "recv"
        /\ hist[c].cause = "silence"
        /\ ~ pb[c].called
        /\ OfType(sent[c], MSG_TYPE_TRANSCRIPT) # <<>>

\* C4: while every frame received was below the threshold, the session is
\* idle: nothing buffered, no flush, no transcription call.
C4_SilenceNeverStarts ==
    \A c \in Conns :
        ~ voiced_seen[c] =>
            /\ state[c] = NewBufferState
            /\ nflush[c] = 0
            /\ ncalls[c] = 0
            /\ pc[c] \in {"init", "recv", "closed"}

\* Silent frames and commands only, for longer than the silence timeout.
C4_Witness ==
    \E c \in Conns :
        /\ pc[c] = "recv"
        /\ ~ voiced_seen[c]
        /\ hist[c].kind = "frame"
        /\ nmsgs = MaxMsgs
        /\ now > SILENCE_MAX_SECONDS

\* C5: speech just over MIN_UTTERANCE_SECONDS followed by silence just
\* over SILENCE_MAX_SECONDS, streamed in real time: never more than one
\* flush and one transcription call, and once the silence has lasted
\* SILENCE_MAX_SECONDS exactly one of each, the flush being the silence
\* timeout's and the flushed buffer at least MIN_UTTERANCE_SECONDS long.
C5_OneFlushPerUtterance ==
    \A c \in Session :
        /\ nflush[c] <= 1
        /\ ncalls[c] <= 1
        /\ pc[c] \in {"lock", "run"} => site[c] = "silence"
        /\ nmsgs >= VoicedFrames + SILENCE_MAX_SECONDS * SAMPLE_RATE =>
               /\ nflush[c] = 1
               /\ ncalls[c] = 1
               /\ pb[c].called
               /\ pb[c].dur >= MinBytes

\* Every frame of the capture handled, the last silent ones after the flush.
C5_Witness ==
    \E c \in Session :
        /\ nmsgs = VoicedFrames + SilentFrames
        /\ pc[c] = "recv"
        /\ hist[c].cause = "none"
        /\ nflush[c] = 1
        /\ state[c] = NewBufferState

\* C6: process_buffer hands the buffer to the transcriber exactly when it
\* holds at least MIN_UTTERANCE_SECONDS of audio, and then hands over the
\* samples of the whole buffer; a shorter buffer returns at once, with no
\* call and no transcript.
C6_TranscribeIffLongEnough ==
    \A c \in Conns :
        hist[c].cause # "none" =>
            /\ nflush[c] = hist[c].nflush + 1
            /\ pb[c].called <=> pb[c].dur >= MinBytes
            /\ ncalls[c] = hist[c].ncalls + (IF pb[c].dur >= MinBytes THEN 1 ELSE 0)
            /\ pb[c].dur < MinBytes =>
                   /\ pc[c] \notin {"lock", "run"}
                   /\ OfType(NewMsgs(c), MSG_TYPE_TRANSCRIPT) = <<>>
            /\ pc[c] \in {"lock", "run"} =>
                   /\ Len(state[c].buf) = pb[c].dur
                   /\ audio[c] = pcm16le_to_float32(state[c].buf)

\* An automatic flush of a buffer of exactly MIN_UTTERANCE_SECONDS, which
\* is being transcribed.
C6_Witness ==
    \E c \in Conns :
        /\ hist[c].cause \in AutoCauses
        /\ pb[c].dur = MinBytes
        /\ pc[c] = "run"

\* C7: the messages a finished flush sent hold one transcript, with the
\* transcriber's text and the duration of the flushed buffer, if a
\* transcription ran and returned a non-empty text, and none otherwise; a
\* message that causes no flush sends no transcript.
C7_TranscriptIffText ==
    \A c \in Conns :
        LET ts == OfType(NewMsgs(c), MSG_TYPE_TRANSCRIPT)
        IN  /\ hist[c].cause = "none" => ts = <<>>
            /\ pc[c] \in {"lock", "run"} => ts = <<>>
            /\ (hist[c].cause # "none" /\ pc[c] \in {"recv", "closed"}) =>
                   ts = IF pb[c].called /\ ~ pb[c].raised /\ pb[c].text # ""
                        THEN <<[type |-> MSG_TYPE_TRANSCRIPT,
                                text |-> pb[c].text,
                                duration |-> pb[c].dur]>>
                        ELSE <<>>

\* A flush that was transcribed to a text and sent it.
C7_Witness ==
    \E c \in Conns :
        /\ pc[c] = "recv"
        /\ hist[c].cause \in AutoCauses
        /\ pb[c].called /\ pb[c].text = "hello"
        /\ Len(OfType(sent[c], MSG_TYPE_TRANSCRIPT)) = 1

\* An empty buffer is a buffer state as created; with it, a command that
\* leaves the state as created has left it unchanged.
EmptyIsNew ==
    \A c \in Conns : state[c].buf = <<>> => state[c] = NewBufferState

C9_OneTranscriptionInFlight ==
    /\ Cardinality({c \in Conns : pc[c] = "run"}) <= 1
    /\ \A c \in Conns : pc[c] = "run" <=> model_lock = c
    /\ \A c \in Conns :
           pc[c] = "lock" <=> (\E i \in 1..Len(waiters) : waiters[i] = c)

\* One connection transcribing, two queued behind it.
C9_Witness ==
    /\ \E c \in Conns : pc[c] = "run"
    /\ Len(waiters) = 2

\* C10: with a model, ready is the first message of a connection, sent
\* once and before any client message is handled; without a model the
\* connection is closed with 1011 and nothing is sent.
C10_ReadyFirst ==
    \A c \in Conns :
        pc[c] # "init" =>
            IF model_loaded
            THEN /\ sent[c] # <<>>
                 /\ sent[c][1] = [type |-> MSG_TYPE_READY, sr |-> SAMPLE_RATE]
                 /\ Len(OfType(sent[c], MSG_TYPE_READY)) = 1
                 /\ hist[c].kind # "none" => hist[c].nsent >= 1
                 /\ close_code[c] # None => pc[c] = "closed"
            ELSE /\ pc[c] = "closed"
                 /\ close_code[c] = 1011
                 /\ sent[c] = <<>>
                 /\ hist[c].kind = "none"

\* A connection that sent ready, then a transcript, then an error.
C10_Witness ==
    \E c \in Conns :
        /\ Len(sent[c]) = 3
        /\ sent[c][2].type = MSG_TYPE_TRANSCRIPT
        /\ sent[c][3].type = MSG_TYPE_ERROR

\* ====================================================== the client session
capture_side ==
    <<ncaptured, callback, callback_frame, recorder_queue, callback_hist>>
reader_side == <<reader, reader_chunk, push_hist, pushed>>
sender_side ==
    <<sender, sender_chunk, sender_now, vad, utt_duration, tail_i, last_log,
      tx, dequeued, last_voiced, ended_at, end_ids>>
receiver_side ==
    <<inbox, received, handled, receiver, reply_text, response_lock,
      last_response_time, metrics, npipeline, nsynth, replies, pipeline>>
session_side == <<session, done_tasks, owner_exc>>
supervisor_side ==
    <<run, run_done, run_exc, recorder_running, supervisor, nsessions,
      sleep_until>>
failure_side == <<stop_event, exc, first_raised>>

TaskPc(t) == IF t = "sender" THEN sender ELSE receiver
finished(t) == TaskPc(t) \in {"done", "raised"}

\* task.cancel() was called on t: its next step raises CancelledError.
\* connect_and_run calls it on the tasks outside `done` (line 73); `done`
\* is non-empty from then on, also when connect_and_run is itself
\* cancelled afterwards.
cancelling(t) ==
    /\ t \notin done_tasks
    /\ \/ session = "gather"
       \/ session = "cancelled" /\ done_tasks # {}

\* The tasks of run_session (metrics.enabled is false: no metrics_logger).
RunTasks == {"audio_reader", "websocket"}
RunTaskPc(t) == IF t = "audio_reader" THEN reader ELSE session
run_finished(t) == RunTaskPc(t) \in {"done", "raised", "returned"}
run_cancelling(t) == run = "gather" /\ t \notin run_done
\* Task.exception() of a task of run_session: read_chunk's RuntimeError, or
\* what connect_and_run raised.
run_task_exception(t) ==
    IF t = "audio_reader"
    THEN (IF reader = "raised" THEN "RuntimeError" ELSE "none")
    ELSE (IF session = "raised" THEN owner_exc ELSE "none")

\* The `except` clauses of the two loops: set stop_event and re-raise.
Raised(t, e) ==
    /\ stop_event' = TRUE
    /\ exc' = [exc EXCEPT ![t] = e]
    /\ first_raised' = IF first_raised = "none" THEN t ELSE first_raised

\* run_session up to asyncio.wait and connect_and_run up to asyncio.wait:
\* the recorder is started, the connection is open and the ready message
\* has been read, and the tasks stand at their first suspension.
StartSession ==
    /\ supervisor = "session"
    /\ session = "init"
    /\ session' = "wait"
    /\ reader' = "read"
    /\ sender' = "get"
    /\ receiver' = "recv"
    /\ ws_open' = TRUE
    /\ run' = "wait"
    /\ recorder_running' = TRUE
    /\ nsessions' = nsessions + 1
    /\ UNCHANGED <<now, server_vars, service_vars, run_done, run_exc, supervisor,
                   sleep_until, capture_side, reader_chunk, push_hist,
                   pushed, audio_queue, sender_chunk, sender_now, vad,
                   utt_duration, tail_i, last_log, tx, dequeued, last_voiced,
                   ended_at, end_ids, inbox, received, handled, reply_text,
                   response_lock, last_response_time, metrics, npipeline,
                   nsynth, replies, pipeline, failure_side, done_tasks,
                   owner_exc>>

\* _audio_callback on the audio thread, up to the first put_nowait: the
\* frame is queued, or QueueFull is raised.
Capture(data) ==
    LET f == [id |-> ncaptured + 1, data |-> data]
    IN  /\ session # "init"
        /\ callback = "idle"
        /\ ncaptured' = ncaptured + 1
        /\ IF ~ full(recorder_queue, recorder_maxsize)
           THEN /\ recorder_queue' = put_nowait(recorder_queue, f)
                /\ UNCHANGED <<callback, callback_frame>>
           ELSE /\ callback' = "full"
                /\ callback_frame' = f
                /\ UNCHANGED recorder_queue
        /\ UNCHANGED <<now, server_vars, service_vars, supervisor_side, callback_hist, reader_side,
                       audio_queue, sender_side, receiver_side, session_side,
                       failure_side, ws_open>>

\* _audio_callback, the QueueFull handler: get_nowait, then put_nowait;
\* whatever they raise is swallowed (`except: pass`).
CallbackRetry ==
    /\ callback = "full"
    /\ callback_hist' = [seen |-> TRUE, len |-> Len(recorder_queue),
                         evicted |-> recorder_queue # <<>>,
                         kept |-> recorder_queue # <<>>]
    /\ recorder_queue' =
           IF recorder_queue = <<>> THEN recorder_queue
           ELSE put_nowait(get_nowait(recorder_queue), callback_frame)
    /\ callback' = "idle"
    /\ callback_frame' = NoFrame
    /\ UNCHANGED <<now, server_vars, service_vars, supervisor_side, ncaptured, reader_side, audio_queue,
                   sender_side, receiver_side, session_side, failure_side,
                   ws_open>>

\* read_chunk returns the oldest chunk of the recorder's queue.
ReadChunk ==
    /\ reader = "read"
    /\ ~ run_cancelling("audio_reader")
    /\ recorder_queue # <<>>
    /\ reader_chunk' = Head(recorder_queue)
    /\ recorder_queue' = get_nowait(recorder_queue)
    /\ reader' = "push"
    /\ UNCHANGED <<now, server_vars, service_vars, supervisor_side, ncaptured, callback, callback_frame,
                   callback_hist, push_hist, pushed, audio_queue, sender_side,
                   receiver_side, session_side, failure_side, ws_open>>

\* _audio_reader_task, lines 131-134: `with suppress(QueueEmpty):
\* queue.get_nowait()`.
drop_newest(q) == IF q = <<>> THEN q ELSE SubSeq(q, 1, Len(q) - 1)
drop_oldest(q) == IF q = <<>> THEN q ELSE get_nowait(q)

\* _audio_reader_task, lines 131-136: make room if the queue is full, then
\* put; `await queue.put` suspends only on a full queue.
ReaderPush ==
    LET q1 == IF full(audio_queue, max_size)
              THEN drop_oldest(audio_queue) ELSE audio_queue
    IN  /\ reader = "push"
        /\ IF full(q1, max_size)
           THEN /\ reader' = "blocked"
                /\ audio_queue' = q1
                /\ push_hist' = [pre |-> audio_queue, item |-> reader_chunk,
                                 post |-> q1, blocked |-> TRUE]
                /\ UNCHANGED pushed
           ELSE /\ reader' = loop_head(stop_event, "read")
                /\ audio_queue' = put_nowait(q1, reader_chunk)
                /\ push_hist' = [pre |-> audio_queue, item |-> reader_chunk,
                                 post |-> put_nowait(q1, reader_chunk),
                                 blocked |-> FALSE]
                /\ pushed' = Append(pushed, reader_chunk.id)
        /\ UNCHANGED <<now, server_vars, service_vars, supervisor_side, capture_side, reader_chunk,
                       sender_side, receiver_side, session_side, failure_side,
                       ws_open>>

\* _sender_task, lines 113-134: a chunk is dequeued, the clock is read and
\* the VAD decides; the chunk is skipped or goes on to ws.send.
SenderDequeue ==
    LET c == Head(audio_queue)
        voice == pcm16le_to_rms_at_threshold(c.data)
        d == vad_decision(vad, voice, now)
    IN  /\ sender = "get"
        /\ ~ cancelling("sender")
        /\ audio_queue # <<>>
        /\ audio_queue' = get_nowait(audio_queue)
        /\ sender_chunk' = c
        /\ sender_now' = now
        /\ vad' = d.vad
        /\ sender' = IF d.skip THEN loop_head(stop_event, "get") ELSE "send"
        /\ dequeued' = Append(dequeued, [id |-> c.id,
                                         in_utterance |-> d.vad.in_utterance])
        /\ last_voiced' = IF voice THEN now ELSE last_voiced
        /\ UNCHANGED <<now, server_vars, service_vars, supervisor_side, capture_side, reader_side, utt_duration,
                       tail_i, last_log, tx, ended_at, end_ids, receiver_side,
                       session_side, failure_side, ws_open>>

\* _sender_task, lines 117-118 and 110: the get times out and the loop
\* finds stop_event set.  (With stop_event clear it waits again.)
SenderTimeout ==
    /\ sender = "get"
    /\ ~ cancelling("sender")
    /\ audio_queue = <<>>
    /\ stop_event
    /\ sender' = "done"
    /\ UNCHANGED <<now, server_vars, service_vars, supervisor_side, capture_side, reader_side, audio_queue,
                   sender_chunk, sender_now, vad, utt_duration, tail_i, last_log,
                   tx, dequeued, last_voiced, ended_at, end_ids,
                   receiver_side, session_side, failure_side, ws_open>>

\* _sender_task, lines 137-150: ws.send(chunk) returns, then the end of the
\* utterance is checked against the `now` of line 120 and, if it ended,
\* end_utterance gets a fresh clock reading.
SenderSend ==
    /\ sender = "send"
    /\ ~ cancelling("sender")
    /\ ws_open
    /\ tx' = Append(tx, sender_chunk)
    /\ IF should_end_utterance(vad, sender_now)
       THEN /\ vad' = end_utterance(vad, now)
            /\ utt_duration' = utterance_duration(vad, now)
            /\ ended_at' = now
            /\ end_ids' = end_ids \cup {sender_chunk.id}
            /\ tail_i' = 0
            /\ IF tail_complete(0)
               THEN /\ sender' = loop_head(stop_event, "get")
                    /\ last_log' =
                           IF is_utterance_valid(utterance_duration(vad, now))
                           THEN "ended" ELSE "too short"
               ELSE /\ sender' = "tail"
                    /\ UNCHANGED last_log
       ELSE /\ sender' = loop_head(stop_event, "get")
            /\ UNCHANGED <<vad, utt_duration, ended_at, end_ids, tail_i,
                           last_log>>
    /\ UNCHANGED <<now, server_vars, service_vars, supervisor_side, capture_side, reader_side, audio_queue,
                   sender_chunk, sender_now, dequeued, last_voiced,
                   receiver_side, session_side, failure_side, ws_open>>

\* _sender_task, lines 144-150: one ws.send(silence) of the tail returns.
SenderTail ==
    /\ sender = "tail"
    /\ ~ cancelling("sender")
    /\ ws_open
    /\ tx' = Append(tx, [id |-> 0,
                         data |-> create_silence_frame(bytes_per_chunk)])
    /\ tail_i' = tail_i + 1
    /\ IF tail_complete(tail_i + 1)
       THEN /\ sender' = loop_head(stop_event, "get")
            /\ last_log' = IF is_utterance_valid(utt_duration)
                           THEN "ended" ELSE "too short"
       ELSE UNCHANGED <<sender, last_log>>
    /\ UNCHANGED <<now, server_vars, service_vars, supervisor_side, capture_side, reader_side, audio_queue,
                   sender_chunk, sender_now, vad, utt_duration, dequeued,
                   last_voiced, ended_at, end_ids, receiver_side,
                   session_side, failure_side, ws_open>>

\* ws.send on a closed connection raises ConnectionClosed.
SenderRaise ==
    /\ sender \in {"send", "tail"}
    /\ ~ cancelling("sender")
    /\ ~ ws_open
    /\ sender' = "raised"
    /\ Raised("sender", "ConnectionClosed")
    /\ UNCHANGED <<now, server_vars, service_vars, supervisor_side, capture_side, reader_side, audio_queue,
                   sender_chunk, sender_now, vad, utt_duration, tail_i, last_log,
                   tx, dequeued, last_voiced, ended_at, end_ids,
                   receiver_side, session_side, ws_open>>

\* The connection is lost, or the server closes it.
ConnectionLost ==
    /\ ws_open
    /\ ws_open' = FALSE
    /\ UNCHANGED <<now, server_vars, service_vars, supervisor_side, capture_side, reader_side, audio_queue,
                   sender_side, receiver_side, session_side, failure_side>>

\* --------------------------------- capture, audio reader and sender alone
\* The server sends nothing and the receiver waits in ws.recv().
NextSender ==
    \/ StartSession
    \/ now < MaxClock /\ Tick
    \/ \E data \in FrameData : ncaptured < MaxFrames /\ Capture(data)
    \/ CallbackRetry
    \/ ReadChunk
    \/ ReaderPush
    \/ SenderDequeue
    \/ SenderSend
    \/ SenderTail
    \/ SenderRaise
    \/ ConnectionLost

InitSender == Init /\ model_loaded

SpecSender == InitSender /\ [][NextSender]_vars

\* ------------------------------------------------- properties: the sender
\* The timestamps a VAD query may be made with.
TimesAhead == 0..(MaxTime + silence_max_seconds + utterance_cooldown)

\* The audio frames sent, and the dequeued frames the VAD decision left
\* inside an utterance, by capture number.
Ids(frames) == [i \in 1..Len(frames) |-> frames[i].id]
AudioTx == Ids(SelectSeq(tx, LAMBDA f : f.id # 0))
Forwarded == Ids(SelectSeq(dequeued, LAMBDA d : d.in_utterance))
IsPrefix(a, b) == Len(a) <= Len(b) /\ SubSeq(b, 1, Len(a)) = a

\* C11: in every state the sender reaches, should_end_utterance(t) is true
\* only if in_utterance is true and t is at least silence_max_seconds after
\* the last dequeued frame at or above the threshold; it is false whenever
\* in_utterance is false.
C11_EndOnlyAfterSilence ==
    \A t \in TimesAhead :
        should_end_utterance(vad, t) =>
            /\ vad.in_utterance
            /\ last_voiced # None
            /\ t - last_voiced >= silence_max_seconds

\* The sender is about to end an utterance: the check of line 140 is true.
C11_Witness ==
    /\ sender = "send"
    /\ should_end_utterance(vad, sender_now)
    /\ sender_now - last_voiced >= silence_max_seconds

\* C12: once end_utterance has been called, can_start_utterance(t) is false
\* for every t less than utterance_cooldown after the time passed to the
\* last call and true from then on; and an utterance in progress started
\* no sooner than utterance_cooldown after the end of the one before.
C12_CooldownGatesStart ==
    ended_at # None =>
        /\ \A t \in TimesAhead :
               can_start_utterance(vad, t) <=>
                   t >= ended_at + utterance_cooldown
        /\ vad.in_utterance =>
               vad.utterance_start >= ended_at + utterance_cooldown

\* A voiced frame dequeued within the cooldown was skipped.
C12_Witness ==
    /\ ended_at # None
    /\ dequeued # <<>>
    /\ dequeued[Len(dequeued)].id = sender_chunk.id
    /\ ~ dequeued[Len(dequeued)].in_utterance
    /\ pcm16le_to_rms_at_threshold(sender_chunk.data)
    /\ sender_now >= ended_at
    /\ sender_now - ended_at < utterance_cooldown

\* C13: whenever in_utterance is true, last_voice_time >= utterance_start.
C13_VoiceNotBeforeStart ==
    vad.in_utterance => vad.last_voice_time >= vad.utterance_start

\* Voice was heard again after the frame that started the utterance.
C13_Witness ==
    /\ vad.in_utterance
    /\ vad.last_voice_time > vad.utterance_start

\* C14: the audio frames sent are exactly the dequeued frames that the VAD
\* decision left inside an utterance, in order (the last one may still be
\* in ws.send); a frame outside an utterance is never sent.
C14_SentIffInUtterance ==
    /\ IsPrefix(AudioTx, Forwarded)
    /\ Len(Forwarded) - Len(AudioTx) <= 1
    /\ sender \in {"none", "get", "tail", "done"} => AudioTx = Forwarded

\* An utterance shorter than min_utterance_seconds was sent whole, and some
\* frame outside an utterance was skipped.
C14_Witness ==
    /\ last_log = "too short"
    /\ AudioTx = Forwarded
    /\ Len(AudioTx) >= 2
    /\ \E i \in 1..Len(dequeued) : ~ dequeued[i].in_utterance

\* C15: in the frames sent, every audio frame an end was detected on is
\* followed at once by silence_tail_frames frames of bytes_per_chunk zero
\* bytes (fewer only while the tail is being sent or the send raised) and
\* then by no further silence frame; and every silence frame belongs to
\* such a tail.
C15_TailAfterEachEnd ==
    /\ \A i \in 1..Len(tx) :
           (tx[i].id # 0 /\ tx[i].id \in end_ids) =>
               /\ \A k \in 1..silence_tail_frames :
                      i + k <= Len(tx) => tx[i + k].id = 0
               /\ i + silence_tail_frames + 1 <= Len(tx) =>
                      tx[i + silence_tail_frames + 1].id # 0
               /\ i + silence_tail_frames > Len(tx) =>
                      \/ sender = "tail" /\ tail_i = Len(tx) - i
                      \/ sender \in {"raised", "cancelled"}
    /\ \A i \in 1..Len(tx) :
           tx[i].id = 0 =>
               /\ tx[i].data = [j \in 1..bytes_per_chunk |-> 0]
               /\ \E k \in 1..silence_tail_frames :
                      /\ i - k >= 1
                      /\ tx[i - k].id # 0
                      /\ tx[i - k].id \in end_ids
                      /\ \A j \in (i - k + 1)..i : tx[j].id = 0

\* A complete tail was sent and a later audio frame followed it.
C15_Witness ==
    \E i \in 1..Len(tx) :
        /\ tx[i].id \in end_ids
        /\ Len(tx) >= i + silence_tail_frames + 1
        /\ tx[i + silence_tail_frames].id = 0
        /\ tx[i + silence_tail_frames + 1].id # 0

\* ------------------------------------------------- properties: the queues
Min(a, b) == IF a <= b THEN a ELSE b
LastOf(q, n) == SubSeq(q, Len(q) - n + 1, Len(q))

\* C16: the audio frames sent are captured frames in capture order, each at
\* most once, whatever the callback, the reader and the sender interleave
\* and evict.
C16_CaptureOrder ==
    /\ \A i \in 1..Len(AudioTx) : AudioTx[i] \in 1..ncaptured
    /\ \A i, j \in 1..Len(AudioTx) : i < j => AudioTx[i] < AudioTx[j]

\* Two frames were sent with an evicted frame between them.
C16_Witness ==
    /\ Len(AudioTx) >= 2
    /\ \/ callback_hist.evicted
       \/ Len(push_hist.pre) = max_size
    /\ \E i \in 1..(Len(AudioTx) - 1) : AudioTx[i + 1] > AudioTx[i] + 1

\* C17: audio_queue never holds more than max_size chunks; the reader's push
\* never blocks; a push onto a full queue drops exactly the oldest chunk and
\* appends the new one; and with nothing consumed the queue holds the last
\* max_size chunks pushed, in order.
C17_DropOldestNeverBlocks ==
    /\ Len(audio_queue) <= max_size
    /\ reader # "blocked"
    /\ ~ push_hist.blocked
    /\ push_hist.item # NoFrame =>
           push_hist.post =
               Append(IF Len(push_hist.pre) >= max_size
                      THEN Tail(push_hist.pre) ELSE push_hist.pre,
                      push_hist.item)
    /\ dequeued = <<>> =>
           Ids(audio_queue) = LastOf(pushed, Min(max_size, Len(pushed)))

\* More than max_size chunks were pushed and none was consumed.
C17_Witness ==
    /\ dequeued = <<>>
    /\ Len(pushed) > max_size
    /\ Len(push_hist.pre) = max_size
    /\ Len(audio_queue) = max_size

\* C18 (as claimed): when _audio_callback handles an overrun while
\* read_chunk may run, it evicts an entry only from a full queue and the
\* new frame is queued.
C18_EvictsOnlyWhenFull ==
    callback_hist.seen =>
        /\ callback_hist.evicted => callback_hist.len >= recorder_maxsize
        /\ callback_hist.kept

\* ============================================== the receiver and the session
\* The server sends a message; the connection queues it for ws.recv().
ServerMessage(m) ==
    /\ ws_open
    /\ inbox' = Append(inbox, m)
    /\ received' = Append(received, m)
    /\ UNCHANGED <<now, server_vars, service_vars, supervisor_side, capture_side, reader_side, audio_queue,
                   sender_side, handled, receiver, reply_text, response_lock,
                   last_response_time, metrics, npipeline, nsynth, replies,
                   pipeline, session_side, failure_side, ws_open>>

\* _handle_transcript up to its first suspension (lines 202-233): nothing
\* for an empty text; else the transcription is counted and the reply is
\* skipped within the cooldown (checked before and after taking
\* response_lock, which is free: the loop handles one message at a time);
\* else synthesis starts in a worker thread.
HandleTranscript(msg) ==
    LET text == transcript_text(msg)
        n == npipeline + 1
    IN  /\ npipeline' = n
        /\ IF text = <<>>
           THEN /\ receiver' = loop_head(stop_event, "recv")
                /\ UNCHANGED <<metrics, response_lock, reply_text, nsynth,
                               replies, pipeline>>
           ELSE IF in_cooldown(now, last_response_time)
           THEN /\ metrics' = record_skip(record_transcription(metrics))
                /\ replies' = Append(replies, [at |-> now,
                                               outcome |-> "skipped"])
                /\ receiver' = loop_head(stop_event, "recv")
                /\ UNCHANGED <<response_lock, reply_text, nsynth, pipeline>>
           ELSE /\ metrics' = record_transcription(metrics)
                /\ replies' = Append(replies, [at |-> now,
                                               outcome |-> "synth"])
                /\ response_lock' = TRUE
                /\ pipeline' = enter(pipeline, n)
                /\ reply_text' = text
                /\ nsynth' = nsynth + 1
                /\ receiver' = "synth"

\* _receiver_task, lines 167-193: ws.recv() returns the oldest message and
\* the loop dispatches it.
ReceiverRecv ==
    LET m == Head(inbox)
        d == dispatch(m)
    IN  /\ receiver = "recv"
        /\ ~ cancelling("receiver")
        /\ inbox # <<>>
        /\ inbox' = Tail(inbox)
        /\ handled' = Append(handled, m)
        /\ IF d = "transcript"
           THEN /\ HandleTranscript(m)
                /\ UNCHANGED failure_side
           ELSE IF d = "error"
           THEN /\ metrics' = record_stt_error(metrics)
                /\ receiver' = "raised"
                /\ Raised("receiver", "RuntimeError")
                /\ UNCHANGED <<npipeline, response_lock, reply_text, nsynth,
                               replies, pipeline>>
           ELSE IF d = "JSONDecodeError"
           THEN /\ receiver' = "raised"
                /\ Raised("receiver", "JSONDecodeError")
                /\ UNCHANGED <<metrics, npipeline, response_lock, reply_text,
                               nsynth, replies, pipeline>>
           ELSE /\ receiver' = loop_head(stop_event, "recv")
                /\ UNCHANGED <<metrics, npipeline, response_lock, reply_text,
                               nsynth, replies, pipeline, failure_side>>
        /\ UNCHANGED <<now, server_vars, service_vars, supervisor_side, capture_side, reader_side,
                       audio_queue, sender_side, received,
                       last_response_time, session_side, ws_open>>

\* ws.recv() on a closed connection with nothing queued raises
\* ConnectionClosed.
ReceiverRecvRaise ==
    /\ receiver = "recv"
    /\ ~ cancelling("receiver")
    /\ inbox = <<>>
    /\ ~ ws_open
    /\ receiver' = "raised"
    /\ Raised("receiver", "ConnectionClosed")
    /\ UNCHANGED <<now, server_vars, service_vars, supervisor_side, capture_side, reader_side, audio_queue,
                   sender_side, inbox, received, handled, reply_text,
                   response_lock, last_response_time, metrics, npipeline,
                   nsynth, replies, pipeline, session_side, ws_open>>

\* _handle_transcript, lines 230-237: generate_speech returns and playback
\* starts.
SynthDone ==
    /\ receiver = "synth"
    /\ ~ cancelling("receiver")
    /\ receiver' = "play"
    /\ replies' = Outcome(replies, "play")
    /\ last_response_time' = reply_time("play", last_response_time, now)
    /\ UNCHANGED <<now, server_vars, service_vars, supervisor_side, capture_side,
                   reader_side, audio_queue, sender_side, inbox, received,
                   handled, reply_text, response_lock, metrics, npipeline,
                   nsynth, pipeline, session_side, failure_side, ws_open>>

\* _handle_transcript, lines 237-246: playback ends; the response is
\* counted, last_response_time is set and response_lock is released.
PlayDone ==
    /\ receiver = "play"
    /\ ~ cancelling("receiver")
    /\ metrics' = record_response(metrics)
    /\ last_response_time' = reply_time("played", last_response_time, now)
    /\ replies' = Outcome(replies, "played")
    /\ response_lock' = FALSE
    /\ pipeline' = leave(pipeline, npipeline)
    /\ receiver' = loop_head(stop_event, "recv")
    /\ UNCHANGED <<now, server_vars, service_vars, supervisor_side, capture_side,
                   reader_side, audio_queue, sender_side, inbox, received,
                   handled, reply_text, npipeline, nsynth, session_side,
                   failure_side, ws_open>>

\* _handle_transcript, lines 248-250: synthesis or playback raises; the
\* error is counted and response_lock is released.
ReplyRaise ==
    /\ receiver \in {"synth", "play"}
    /\ ~ cancelling("receiver")
    /\ metrics' = record_tts_error(metrics)
    /\ last_response_time' = reply_time("failed", last_response_time, now)
    /\ replies' = Outcome(replies, "failed")
    /\ response_lock' = FALSE
    /\ pipeline' = leave(pipeline, npipeline)
    /\ receiver' = loop_head(stop_event, "recv")
    /\ UNCHANGED <<now, server_vars, service_vars, supervisor_side, capture_side,
                   reader_side, audio_queue, sender_side, inbox, received,
                   handled, reply_text, npipeline, nsynth, session_side,
                   failure_side, ws_open>>

\* connect_and_run, lines 66-73: asyncio.wait(FIRST_EXCEPTION) returns once
\* a task has raised or both have ended; `done` holds every task that has
\* ended by then, and the others are cancelled.
WaitReturn ==
    /\ session = "wait"
    /\ ~ run_cancelling("websocket")
    /\ \/ \E t \in Tasks : TaskPc(t) = "raised"
       \/ \A t \in Tasks : finished(t)
    /\ done_tasks' = {t \in Tasks : finished(t)}
    /\ session' = "gather"
    /\ UNCHANGED <<now, server_vars, service_vars, supervisor_side, capture_side, reader_side, audio_queue,
                   sender_side, receiver_side, owner_exc, failure_side,
                   ws_open>>

\* The cancelled sender's next step raises CancelledError, which its
\* `except Exception` does not catch.
CancelSender ==
    /\ cancelling("sender")
    /\ sender # "cancelled"
    /\ sender' = "cancelled"
    /\ UNCHANGED <<now, server_vars, service_vars, supervisor_side, capture_side, reader_side, audio_queue,
                   sender_chunk, sender_now, vad, utt_duration, tail_i,
                   last_log, tx, dequeued, last_voiced, ended_at, end_ids,
                   receiver_side, session_side, failure_side, ws_open>>

\* The cancelled receiver's next step raises CancelledError; `async with`
\* releases response_lock on the way out.
CancelReceiver ==
    /\ cancelling("receiver")
    /\ receiver # "cancelled"
    /\ receiver' = "cancelled"
    /\ response_lock' = FALSE
    /\ pipeline' = {}
    /\ replies' = IF receiver \in {"synth", "play"}
                  THEN Outcome(replies, "cancelled") ELSE replies
    /\ UNCHANGED <<now, server_vars, service_vars, supervisor_side, capture_side,
                   reader_side, audio_queue, sender_side, inbox, received,
                   handled, reply_text, last_response_time, metrics,
                   npipeline, nsynth, session_side, failure_side, ws_open>>

\* connect_and_run, lines 74-80: gather(*pending) returns, then the first
\* task of the set `done` that has an exception has it raised.  A set of
\* tasks is iterated in no particular order.
GatherDone ==
    /\ session = "gather"
    /\ ~ run_cancelling("websocket")
    /\ \A t \in Tasks \ done_tasks : TaskPc(t) = "cancelled"
    /\ IF \E t \in done_tasks : exc[t] # "none"
       THEN /\ \E t \in done_tasks :
                   /\ exc[t] # "none"
                   /\ owner_exc' = exc[t]
            /\ session' = "raised"
       ELSE /\ session' = "returned"
            /\ UNCHANGED owner_exc
    /\ UNCHANGED <<now, server_vars, service_vars, supervisor_side, capture_side, reader_side, audio_queue,
                   sender_side, receiver_side, done_tasks, failure_side,
                   ws_open>>

\* ------------------------------------------------------------ run_session
\* read_chunk, lines 306-312: nothing arrives within five chunk times and
\* RuntimeError leaves _audio_reader_task, which sets no stop_event.
ReadTimeout ==
    /\ reader = "read"
    /\ ~ run_cancelling("audio_reader")
    /\ recorder_queue = <<>>
    /\ reader' = "raised"
    /\ UNCHANGED <<now, server_vars, service_vars, supervisor_side, capture_side,
                   reader_chunk, push_hist, pushed, audio_queue, sender_side,
                   receiver_side, session_side, failure_side, ws_open>>

\* run_session, lines 89-99: asyncio.wait(FIRST_EXCEPTION) returns once a
\* task has raised or all have ended; stop_event is set and cancel() is
\* called on the tasks outside `done`.
RunWaitReturn ==
    /\ run = "wait"
    /\ \/ \E t \in RunTasks : RunTaskPc(t) = "raised"
       \/ \A t \in RunTasks : run_finished(t)
    /\ run_done' = {t \in RunTasks : run_finished(t)}
    /\ stop_event' = TRUE
    /\ run' = "gather"
    /\ UNCHANGED <<now, server_vars, service_vars, run_exc, recorder_running, supervisor,
                   nsessions, sleep_until, capture_side, reader_side,
                   audio_queue, sender_side, receiver_side, session_side,
                   exc, first_raised, ws_open>>

\* The cancelled _audio_reader_task raises CancelledError where it waits.
CancelReader ==
    /\ run_cancelling("audio_reader")
    /\ reader \in {"read", "blocked"}
    /\ reader' = "cancelled"
    /\ UNCHANGED <<now, server_vars, service_vars, supervisor_side, capture_side,
                   reader_chunk, push_hist, pushed, audio_queue, sender_side,
                   receiver_side, session_side, failure_side, ws_open>>

\* The cancelled _websocket_task raises CancelledError inside
\* connect_and_run, in asyncio.wait (line 66) or in gather (line 74).
\* asyncio.wait leaves the tasks it waits for as they are; the error
\* leaves `async with websockets.connect`, which closes the connection.
CancelWebsocket ==
    /\ run_cancelling("websocket")
    /\ session \in {"wait", "gather"}
    /\ session' = "cancelled"
    /\ ws_open' = FALSE
    /\ UNCHANGED <<now, server_vars, service_vars, supervisor_side, capture_side,
                   reader_side, audio_queue, sender_side, receiver_side,
                   done_tasks, owner_exc, failure_side>>

\* run_with_reconnect, lines 173-177: the exceptions its `except` clauses
\* catch, i.e. every subclass of Exception.
Exceptions == {"ConnectionClosed", "RuntimeError", "JSONDecodeError"}
caught_connection_only(e) == e = "ConnectionClosed"
caught(e) == e = "ConnectionClosed" \/ e \in Exceptions

\* CrossPlatformRecorder.stop, lines 279-289: _running after the call.
stop_not_reached(running) == running
stop(running) == FALSE

\* run_with_reconnect, line 187: the delay before the next session, after
\* n sessions.
reconnect_wait(n) == reconnect_delay

\* run_session, lines 100-109, and run_with_reconnect, lines 173-187:
\* gather(*pending) returns, the exception of a task of `done` is raised
\* (a set is iterated in no particular order), `finally` stops the
\* recorder, and the supervisor logs what it caught and goes to sleep.
RunGatherDone ==
    /\ run = "gather"
    /\ \A t \in RunTasks \ run_done :
           RunTaskPc(t) = "cancelled" \/ run_finished(t)
    /\ recorder_running' = stop(recorder_running)
    /\ IF \E t \in run_done : run_task_exception(t) # "none"
       THEN /\ \E t \in run_done :
                   /\ run_task_exception(t) # "none"
                   /\ run_exc' = run_task_exception(t)
            /\ run' = "raised"
       ELSE /\ run' = "returned"
            /\ run_exc' = "none"
    /\ IF run_exc' = "none" \/ caught(run_exc')
       THEN /\ supervisor' = "sleep"
            /\ sleep_until' = now + reconnect_wait(nsessions)
       ELSE /\ supervisor' = "exited"
            /\ UNCHANGED sleep_until
    /\ UNCHANGED <<now, server_vars, service_vars, run_done, nsessions, capture_side,
                   reader_side, audio_queue, sender_side, receiver_side,
                   session_side, failure_side, ws_open>>

\* run_with_reconnect, lines 187 and 169-171: the sleep returns and the
\* loop calls run_session again, which makes a new audio_queue, stop_event
\* and WebSocketHandler.  The recorder and the metrics are the client's and
\* live on.  Tasks that the ended session left behind are followed no
\* further.
Restart ==
    /\ supervisor = "sleep"
    /\ now >= sleep_until
    /\ supervisor' = "session"
    /\ run' = "none"
    /\ run_done' = {}
    /\ session' = "init"
    /\ reader' = "none"
    /\ reader_chunk' = NoFrame
    /\ audio_queue' = <<>>
    /\ push_hist' = NoPush
    /\ pushed' = <<>>
    /\ sender' = "none"
    /\ sender_chunk' = NoFrame
    /\ sender_now' = 0
    /\ vad' = NewVADState
    /\ utt_duration' = 0
    /\ tail_i' = 0
    /\ last_log' = "none"
    /\ tx' = <<>>
    /\ dequeued' = <<>>
    /\ last_voiced' = None
    /\ ended_at' = None
    /\ end_ids' = {}
    /\ ws_open' = FALSE
    /\ stop_event' = FALSE
    /\ inbox' = <<>>
    /\ received' = <<>>
    /\ handled' = <<>>
    /\ receiver' = "none"
    /\ reply_text' = <<>>
    /\ response_lock' = FALSE
    /\ last_response_time' = 0
    /\ npipeline' = 0
    /\ nsynth' = 0
    /\ replies' = <<>>
    /\ pipeline' = {}
    /\ exc' = [t \in Tasks |-> "none"]
    /\ first_raised' = "none"
    /\ done_tasks' = {}
    /\ owner_exc' = "none"
    /\ UNCHANGED <<now, server_vars, service_vars, capture_side, metrics, run_exc,
                   recorder_running, nsessions, sleep_until>>

\* ----------------------------------------- the supervisor and its sessions
\* Each session ends with one of the errors that end a session: the
\* device delivers nothing and read_chunk times out, the server sends an
\* error or a text that is no JSON, or the connection is lost.
SupervisorMsgs ==
    { Msg("object", MSG_TYPE_ERROR, FALSE, <<>>),
      Msg("invalid", "", FALSE, <<>>) }

NextSupervisor ==
    \/ StartSession
    \/ now < MaxClock /\ Tick
    \/ \E m \in SupervisorMsgs :
           Len(received) < MaxSupervisedMsgs /\ ServerMessage(m)
    \/ ReceiverRecv
    \/ ReceiverRecvRaise
    \/ ConnectionLost
    \/ SenderTimeout
    \/ ReadTimeout
    \/ WaitReturn
    \/ CancelSender
    \/ GatherDone
    \/ RunWaitReturn
    \/ CancelReader
    \/ CancelWebsocket
    \/ RunGatherDone
    \/ nsessions < MaxSessions /\ Restart

\* The event loop runs every task that can run, a timeout or a sleep
\* that is due returns, and the clock goes on.
SupervisorFairness ==
    /\ WF_vars(now < MaxClock /\ Tick)
    /\ WF_vars(StartSession)
    /\ WF_vars(ReceiverRecv)
    /\ WF_vars(ReceiverRecvRaise)
    /\ WF_vars(WaitReturn)
    /\ WF_vars(CancelSender)
    /\ WF_vars(GatherDone)
    /\ WF_vars(RunWaitReturn)
    /\ WF_vars(CancelReader)
    /\ WF_vars(CancelWebsocket)
    /\ WF_vars(RunGatherDone)
    /\ WF_vars(nsessions < MaxSessions /\ Restart)

SpecSupervisor ==
    InitSender /\ [][NextSupervisor]_vars /\ SupervisorFairness

\* --------------------------------------------- one session to its very end
\* The sender is idle; the server sends transcripts or an error, the
\* replies are synthesised and played, and the session ends because the
\* receiver raises, the connection is lost or read_chunk times out.
TeardownMsgs ==
    { Msg("object", MSG_TYPE_TRANSCRIPT, TRUE, <<"h", "i">>),
      Msg("object", MSG_TYPE_ERROR, FALSE, <<>>) }

NextTeardown ==
    \/ StartSession
    \/ now < MaxClock /\ Tick
    \/ \E m \in TeardownMsgs :
           Len(received) < MaxServerMsgs /\ ServerMessage(m)
    \/ ReceiverRecv
    \/ ReceiverRecvRaise
    \/ SynthDone
    \/ PlayDone
    \/ ReplyRaise
    \/ ConnectionLost
    \/ SenderTimeout
    \/ ReadTimeout
    \/ WaitReturn
    \/ CancelSender
    \/ GatherDone
    \/ RunWaitReturn
    \/ CancelReader
    \/ CancelWebsocket
    \/ RunGatherDone

SpecTeardown == InitSender /\ [][NextTeardown]_vars

\* ------------------------------------- the receiver with an idle sender
\* Nothing is captured: the sender waits in audio_queue.get().
NextReceiver ==
    \/ StartSession
    \/ now < MaxClock /\ Tick
    \/ \E m \in ServerMsgs :
           Len(received) < MaxServerMsgs /\ ServerMessage(m)
    \/ ReceiverRecv
    \/ ReceiverRecvRaise
    \/ SynthDone
    \/ PlayDone
    \/ ReplyRaise
    \/ ConnectionLost
    \/ SenderTimeout
    \/ WaitReturn
    \/ CancelSender
    \/ GatherDone

SpecReceiver == InitSender /\ [][NextReceiver]_vars

\* ------------------------------------------ the whole session, few inputs
\* The session is followed until the first utterance can start: frames are
\* voiced, no utterance ends, and a transcript arrives within the reply
\* cooldown and is skipped.  The server sends a transcript or an error.
SessionFrames == { <<7, 1>> }
SessionMsgs ==
    { Msg("object", MSG_TYPE_TRANSCRIPT, TRUE, <<"h", "i">>),
      Msg("object", MSG_TYPE_ERROR, FALSE, <<>>) }

NextSession ==
    \/ StartSession
    \/ now < utterance_cooldown /\ Tick
    \/ \E data \in SessionFrames : ncaptured < MaxFrames /\ Capture(data)
    \/ CallbackRetry
    \/ ReadChunk
    \/ ReaderPush
    \/ SenderDequeue
    \/ SenderTimeout
    \/ SenderSend
    \/ SenderRaise
    \/ \E m \in SessionMsgs :
           Len(received) < MaxServerMsgs /\ ServerMessage(m)
    \/ ReceiverRecv
    \/ ReceiverRecvRaise
    \/ ConnectionLost
    \/ WaitReturn
    \/ CancelSender
    \/ CancelReceiver
    \/ GatherDone

SpecSession == InitSender /\ [][NextSession]_vars

\* ------------------------------- the reply pipeline with a running sender
\* One voiced frame is captured and sent while the server's transcripts are
\* answered; the connection may be lost at any moment.
NextMetrics ==
    \/ StartSession
    \/ now < MaxClock /\ Tick
    \/ \E data \in SessionFrames : ncaptured < MaxSentFrames /\ Capture(data)
    \/ ReadChunk
    \/ ReaderPush
    \/ SenderDequeue
    \/ SenderTimeout
    \/ SenderSend
    \/ SenderRaise
    \/ \E m \in SessionMsgs :
           Len(received) < MaxAnsweredMsgs /\ ServerMessage(m)
    \/ ReceiverRecv
    \/ ReceiverRecvRaise
    \/ SynthDone
    \/ PlayDone
    \/ ReplyRaise
    \/ ConnectionLost
    \/ WaitReturn
    \/ CancelSender
    \/ CancelReceiver
    \/ GatherDone

SpecMetrics == InitSender /\ [][NextMetrics]_vars

\* ---------------------------------------------- properties: the receiver
\* C19: the receiver takes the messages in the order the server sent them,
\* one at a time; taking a binary message changes nothing else; taking a
\* transcript message calls _handle_transcript once and does not raise;
\* taking an error message adds exactly one to stt_errors, calls nothing,
\* sets stop_event and ends the receiver with RuntimeError; and a receiver
\* that has raised takes no further message.
C19_ReceiverDispatch ==
    /\ [](received = handled \o inbox)
    /\ [][ handled' # handled =>
             LET m == Head(inbox)
             IN  /\ receiver = "recv"
                 /\ inbox # <<>>
                 /\ handled' = Append(handled, m)
                 /\ inbox' = Tail(inbox)
                 /\ m.raw = "bytes" =>
                        /\ receiver' = loop_head(stop_event, "recv")
                        /\ UNCHANGED <<metrics, npipeline, nsynth, reply_text,
                                       response_lock, last_response_time,
                                       stop_event, exc, first_raised>>
                 /\ (m.raw = "object" /\ m.type = "transcript") =>
                        /\ npipeline' = npipeline + 1
                        /\ receiver' # "raised"
                        /\ metrics'.stt_errors = metrics.stt_errors
                        /\ UNCHANGED <<stop_event, exc>>
                 /\ (m.raw = "object" /\ m.type = "error") =>
                        /\ metrics' = [metrics EXCEPT !.stt_errors = @ + 1]
                        /\ receiver' = "raised"
                        /\ exc'["receiver"] = "RuntimeError"
                        /\ stop_event'
                        /\ UNCHANGED <<npipeline, nsynth, response_lock>> ]_vars

\* A binary message, then a transcript, then an error were handled, and the
\* error ended the session.
C19_Witness ==
    /\ Len(handled) = 3
    /\ handled[1].raw = "bytes"
    /\ handled[2].type = "transcript"
    /\ handled[3].type = "error"
    /\ npipeline = 1
    /\ metrics.stt_errors = 1
    /\ receiver = "raised"
    /\ session = "raised"
    /\ owner_exc = "RuntimeError"

\* C20 (as claimed): what connect_and_run raises is the exception of the
\* task that raised first.
C20_FirstExceptionRaised ==
    session = "raised" => owner_exc = exc[first_raised]

\* ===================================================== the reply generator
\* generate_reply, lines 67-87, up to the first request: an empty text is
\* answered with "" at once; with a breaker, an open breaker refuses the
\* call and any other lets it through; without one the retry loop starts.
GenerateReply(user_text) ==
    LET text == strip(user_text)
        call == [NoCallYet EXCEPT !.text = text, !.before = breaker.state,
                                  !.input = user_text, !.at = now,
                                  !.opened_at = breaker.opened_at]
        refused == surface("CircuitBreakerError")
    IN  /\ reply.pc = "idle"
        /\ nreplies' = nreplies + 1
        /\ IF text = <<>>
           THEN /\ reply' = [call EXCEPT !.out = "returned",
                                         !.result = "empty"]
                /\ UNCHANGED breaker
           ELSE IF breaker_enabled /\ still_open(breaker, now)
           THEN /\ reply' = [call EXCEPT !.out = refused.out,
                                         !.message = refused.message]
                /\ UNCHANGED breaker
           ELSE /\ reply' = [call EXCEPT !.pc = "request"]
                /\ breaker' = IF breaker_enabled
                              THEN before_call(breaker, now) ELSE breaker
        /\ UNCHANGED <<now, server_vars, client_vars, tts_vars,
                       breaker_enabled, streak>>

\* _make_ollama_request returns, or raises RequestException.  With a
\* breaker (lines 103-116) the breaker sees the outcome and the call ends;
\* without one (lines 125-140) a failed attempt that is not the last one
\* sleeps wait_time and the last one raises LLMError.
RequestDone(ok) ==
    LET made == [reply EXCEPT !.requests = @ + 1,
                              !.last = IF ok THEN "ok" ELSE "failed"]
        returned == [made EXCEPT !.pc = "idle", !.out = "returned",
                                 !.result = "text"]
        raised(e) == [made EXCEPT !.pc = "idle", !.out = surface(e).out,
                                  !.message = surface(e).message]
    IN  /\ reply.pc = "request"
        /\ streak' = IF ok THEN 0 ELSE streak + 1
        /\ IF breaker_enabled
           THEN IF ok
                THEN /\ breaker' = on_success(breaker)
                     /\ reply' = returned
                ELSE /\ breaker' = on_failure(breaker, now)
                     /\ reply' = raised(breaker_raises(breaker))
           ELSE /\ UNCHANGED breaker
                /\ IF ok
                   THEN reply' = returned
                   ELSE IF is_last_attempt(reply.attempt)
                   THEN reply' = raised("RequestException")
                   ELSE reply' =
                            [made EXCEPT
                                !.pc = "sleep",
                                !.waits = Append(@, wait_time(reply.attempt)),
                                !.wake_at = now + wait_time(reply.attempt)]
        /\ UNCHANGED <<now, server_vars, client_vars, tts_vars,
                       breaker_enabled, nreplies>>

\* _generate_with_retry, lines 137 and 125-127: time.sleep returns and the
\* next attempt is made.
RetryWake ==
    /\ reply.pc = "sleep"
    /\ now >= reply.wake_at
    /\ reply' = [reply EXCEPT !.pc = "request", !.attempt = @ + 1]
    /\ UNCHANGED <<now, server_vars, client_vars, tts_vars,
                   breaker_enabled, breaker, streak, nreplies>>

\* The texts generate_reply is called with.
LLMTexts == { <<"h", "i">>, <<" ", "h", " ">>, <<" ">>, <<>> }

NextLLM ==
    \/ Tick
    \/ \E t \in LLMTexts : nreplies < MaxCalls /\ GenerateReply(t)
    \/ \E ok \in BOOLEAN : RequestDone(ok)
    \/ RetryWake

\* The module is imported with CIRCUIT_BREAKER_ENABLED true or false.
InitLLM ==
    /\ InitServer /\ model_loaded
    /\ NewTTSServer(MAX_CONVERSATION_LOG_ENTRIES)
    /\ \E e \in BOOLEAN : NoReply(e)
SpecLLM == InitLLM /\ [][NextLLM]_vars

\* ============================================= the text-to-speech server
\* tts is a coroutine without a suspension point once it holds the
\* semaphore (generate_reply and synthesize_text_to_wav are blocking
\* calls), so the event loop runs one call of tts at a time, from its
\* first line to its response.  update_config, get_config,
\* get_conversations and clear_conversations are plain functions, which
\* FastAPI runs on worker threads: their statements interleave with one
\* another and with the statements of tts.

\* HTTPException(status_code) or the response: the call is over.
respond(call, status) == [call EXCEPT !.pc = "idle", !.status = status]

\* POST /tts, lines 90-96 and 342-352: the request is validated, the text
\* stripped, the slot taken and runtime_config.personality read.
TtsRequest(text) ==
    LET call == [NoTtsCall EXCEPT !.n = ntts + 1, !.text = text]
    IN  /\ tts_call.pc = "idle"
        /\ ntts' = ntts + 1
        /\ IF ~ valid(text)
           THEN /\ tts_call' = respond(call, 422)
                /\ UNCHANGED semaphore
           ELSE IF strip(text) = <<>>
           THEN /\ tts_call' = respond(call, 400)
                /\ UNCHANGED semaphore
           ELSE /\ semaphore > 0
                /\ semaphore' = semaphore - 1
                /\ tts_call' =
                       [call EXCEPT !.pc = "model",
                                    !.personality = runtime_config.personality]
        /\ UNCHANGED <<now, server_vars, client_vars, breaker_enabled,
                       breaker, reply, streak, nreplies, max_log_entries,
                       runtime_config, conversation_log, updates,
                       config_read, log_read, appended>>

\* Lines 353-376: runtime_config.model is read and generate_reply called.
TtsReadModel ==
    /\ tts_call.pc = "model"
    /\ tts_call' = [tts_call EXCEPT !.pc = "llm", !.llm_called = TRUE,
                                    !.model = runtime_config.model]
    /\ UNCHANGED <<now, server_vars, client_vars, breaker_enabled, breaker,
                   reply, streak, nreplies, max_log_entries, runtime_config,
                   conversation_log, semaphore, ntts, updates, config_read,
                   log_read, appended>>

\* What generate_reply gives its caller: a text, the empty text, LLMError.
ReplyOutcomes == {"text", "", "LLMError"}

\* Lines 376-405: generate_reply raises LLMError (503), or returns and
\* runtime_config.speaker_id is read and synthesize_text_to_wav called.
TtsReplyDone(outcome) ==
    /\ tts_call.pc = "llm"
    /\ IF outcome = "LLMError"
       THEN /\ tts_call' = respond(tts_call, 503)
            /\ semaphore' = semaphore + 1
       ELSE /\ tts_call' =
                   [tts_call EXCEPT !.pc = "synth", !.synth_called = TRUE,
                                    !.bot_response = or_fallback(outcome),
                                    !.speaker_id = runtime_config.speaker_id]
            /\ UNCHANGED semaphore
    /\ UNCHANGED <<now, server_vars, client_vars, breaker_enabled, breaker,
                   reply, streak, nreplies, max_log_entries, runtime_config,
                   conversation_log, ntts, updates, config_read, log_read,
                   appended>>

\* Lines 419-427.
conversation_entry(call) ==
    [timestamp |-> call.n, user_text |-> strip(call.text),
     bot_response |-> call.bot_response, personality |-> call.personality,
     model |-> call.model]

\* Lines 405-428: synthesize_text_to_wav raises PiperError (502), or
\* returns and the entry is appended to the log.
TtsSynthDone(ok) ==
    /\ tts_call.pc = "synth"
    /\ IF ok
       THEN /\ tts_call' = [tts_call EXCEPT !.pc = "check", !.logged = TRUE]
            /\ conversation_log' =
                   Append(conversation_log, conversation_entry(tts_call))
            /\ appended' = Append(appended, conversation_entry(tts_call))
            /\ UNCHANGED semaphore
       ELSE /\ tts_call' = respond(tts_call, 502)
            /\ semaphore' = semaphore + 1
            /\ UNCHANGED <<conversation_log, appended>>
    /\ UNCHANGED <<now, server_vars, client_vars, breaker_enabled, breaker,
                   reply, streak, nreplies, max_log_entries, runtime_config,
                   ntts, updates, config_read, log_read>>

\* Line 431 and lines 435-446: the length of the log is compared with the
\* limit; within the limit the response is returned.
TtsCheck ==
    /\ tts_call.pc = "check"
    /\ IF over_limit(conversation_log, max_log_entries)
       THEN /\ tts_call' = [tts_call EXCEPT !.pc = "pop"]
            /\ UNCHANGED semaphore
       ELSE /\ tts_call' = respond(tts_call, 200)
            /\ semaphore' = semaphore + 1
    /\ UNCHANGED <<now, server_vars, client_vars, breaker_enabled, breaker,
                   reply, streak, nreplies, max_log_entries, runtime_config,
                   conversation_log, ntts, updates, config_read, log_read,
                   appended>>

\* Line 432 and lines 435-446: pop(0) removes the oldest entry and the
\* response is returned; on a log emptied meanwhile it raises IndexError
\* (500).
TtsPop ==
    /\ tts_call.pc = "pop"
    /\ semaphore' = semaphore + 1
    /\ IF conversation_log = <<>>
       THEN /\ tts_call' = respond(tts_call, 500)
            /\ UNCHANGED conversation_log
       ELSE /\ tts_call' = respond(tts_call, 200)
            /\ conversation_log' = pop_first(conversation_log)
    /\ UNCHANGED <<now, server_vars, client_vars, breaker_enabled, breaker,
                   reply, streak, nreplies, max_log_entries, runtime_config,
                   ntts, updates, config_read, log_read, appended>>

\* DELETE /conversations, line 323.
ClearConversations ==
    /\ conversation_log' = <<>>
    /\ appended' = <<>>
    /\ UNCHANGED <<now, server_vars, client_vars, breaker_enabled, breaker,
                   reply, streak, nreplies, max_log_entries, runtime_config,
                   semaphore, tts_call, ntts, updates, config_read,
                   log_read>>

\* GET /conversations, line 311: the "conversations" of the response.
GetConversations(most) ==
    /\ log_read.pc = 0
    /\ log_read' = [log_read EXCEPT !.pc = 1, !.limit = most,
                                    !.seen = recent(conversation_log, most)]
    /\ UNCHANGED <<now, server_vars, client_vars, breaker_enabled, breaker,
                   reply, streak, nreplies, max_log_entries, runtime_config,
                   conversation_log, semaphore, tts_call, ntts, updates,
                   config_read, appended>>

\* Line 312: the "total" of the response.
GetConversationsTotal ==
    /\ log_read.pc = 1
    /\ log_read' = [log_read EXCEPT !.pc = 0,
                                    !.total = Len(conversation_log)]
    /\ UNCHANGED <<now, server_vars, client_vars, breaker_enabled, breaker,
                   reply, streak, nreplies, max_log_entries, runtime_config,
                   conversation_log, semaphore, tts_call, ntts, updates,
                   config_read, appended>>

\* One field of an update, lines 269-295: the value is assigned, or int()
\* raises ValueError (500) and the call ends with the fields before it
\* assigned.
assign(config, i, value) ==
    IF converts(ConfigFields[i], value)
    THEN [config EXCEPT ![ConfigFields[i]] = value]
    ELSE config
next_field(i, value) ==
    IF converts(ConfigFields[i], value) /\ i < Len(ConfigFields)
    THEN i + 1 ELSE 0
update_status(i, value) ==
    IF ~ converts(ConfigFields[i], value) THEN 500
    ELSE IF i < Len(ConfigFields) THEN 0 ELSE 200

\* POST /config, lines 269-271: a call of update_config starts on a worker
\* thread and assigns the first field.
UpdateConfig(u, config) ==
    /\ updates[u].pc = 0
    /\ runtime_config' = assign(runtime_config, 1, config[ConfigFields[1]])
    /\ updates' =
           [updates EXCEPT
               ![u] = [pc |-> next_field(1, config[ConfigFields[1]]),
                       config |-> config,
                       status |-> update_status(1, config[ConfigFields[1]])]]
    /\ UNCHANGED <<now, server_vars, client_vars, breaker_enabled, breaker,
                   reply, streak, nreplies, max_log_entries,
                   conversation_log, semaphore, tts_call, ntts, config_read,
                   log_read, appended>>

\* Lines 273-297: the call assigns its next field.
UpdateField(u) ==
    LET i == updates[u].pc
        value == updates[u].config[ConfigFields[i]]
    IN  /\ i > 0
        /\ runtime_config' = assign(runtime_config, i, value)
        /\ updates' =
               [updates EXCEPT ![u].pc = next_field(i, value),
                               ![u].status = update_status(i, value)]
        /\ UNCHANGED <<now, server_vars, client_vars, breaker_enabled,
                       breaker, reply, streak, nreplies, max_log_entries,
                       conversation_log, semaphore, tts_call, ntts,
                       config_read, log_read, appended>>

\* GET /config, lines 248-256: the next item of the response is read.
GetConfig ==
    LET i == IF config_read.pc = 0 THEN 1 ELSE config_read.pc
        f == ConfigFields[i]
    IN  /\ config_read' =
               [pc |-> IF i < Len(ConfigFields) THEN i + 1 ELSE 0,
                seen |-> [config_read.seen EXCEPT ![f] = runtime_config[f]],
                done |-> ~ (i < Len(ConfigFields))]
        /\ UNCHANGED <<now, server_vars, client_vars, breaker_enabled,
                       breaker, reply, streak, nreplies, max_log_entries,
                       runtime_config, conversation_log, semaphore, tts_call,
                       ntts, updates, log_read, appended>>

\* The texts posted, the limits asked for and the configurations posted.
TtsTexts == { <<"h", "i">>, <<" ">>, <<>>, <<"h", "e", "l", "p">> }
ReadLimits == {0, 1, 50}
ConfigUpdates ==
    { [personality |-> "1", model |-> "1", speaker_id |-> "1"],
      [personality |-> "2", model |-> "2", speaker_id |-> "x"] }

\* Requests and the log: no update of the configuration.
NextTTS ==
    \/ \E t \in TtsTexts : ntts < MaxRequests /\ TtsRequest(t)
    \/ TtsReadModel
    \/ \E o \in ReplyOutcomes : TtsReplyDone(o)
    \/ \E ok \in BOOLEAN : TtsSynthDone(ok)
    \/ TtsCheck
    \/ TtsPop
    \/ ClearConversations
    \/ \E most \in ReadLimits : GetConversations(most)
    \/ GetConversationsTotal

\* The server is started with a bounded or an unbounded log.
InitTTS ==
    /\ InitServer /\ model_loaded /\ NoReply(TRUE)
    /\ \E most \in {0, MAX_CONVERSATION_LOG_ENTRIES} : NewTTSServer(most)
SpecTTS == InitTTS /\ [][NextTTS]_vars

\* Requests, updates and readers of the configuration.
NextConfig ==
    \/ ntts < MaxConfigRequests /\ TtsRequest(<<"h", "i">>)
    \/ TtsReadModel
    \/ TtsReplyDone("text")
    \/ TtsSynthDone(TRUE)
    \/ TtsCheck
    \/ \E u \in UpdateCalls, c \in ConfigUpdates : UpdateConfig(u, c)
    \/ \E u \in UpdateCalls : UpdateField(u)
    \/ GetConfig

InitConfig ==
    /\ InitServer /\ model_loaded /\ NoReply(TRUE)
    /\ NewTTSServer(MAX_CONVERSATION_LOG_ENTRIES)
SpecConfig == InitConfig /\ [][NextConfig]_vars

\* ------------------------------------------- properties: the session's end
\* C21: once run_session has returned or raised, the sender and the
\* receiver have ended (returned, raised or been cancelled) and no call of
\* _handle_transcript is still inside its reply block.
C21_NoTaskOutlivesSession ==
    run \in {"raised", "returned"} =>
        /\ \A t \in Tasks : TaskPc(t) \in {"done", "raised", "cancelled"}
        /\ pipeline = {}

\* ---------------------------------------- properties: the reply pipeline
\* C22: of two non-empty transcripts received one after the other on a
\* connection less than cooldown_seconds apart, the first of which had a
\* reply synthesised, the second is skipped: it calls no synthesis.
C22_SecondWithinCooldownSkipped ==
    \A i \in 1..(Len(replies) - 1) :
        ( /\ replies[i].outcome # "skipped"
          /\ replies[i + 1].at - replies[i].at < cooldown_seconds )
        => replies[i + 1].outcome = "skipped"

\* The transcript handled last.
Latest(r) == r[Len(r)]

\* C23: at most one call of _handle_transcript is inside its reply block
\* (synthesis, then playback) at a time; it is the one the receiver waits
\* for, and it holds response_lock.
C23_OneReplyAtATime ==
    /\ Cardinality(pipeline) <= 1
    /\ pipeline # {} <=> receiver \in {"synth", "play"}
    /\ pipeline # {} <=> response_lock

\* A second reply is being synthesised after the first one came to its end.
C23_Witness ==
    /\ Len(replies) >= 2
    /\ replies[1].outcome \in {"played", "failed"}
    /\ receiver = "synth"
    /\ pipeline = {npipeline}

\* C24: last_response_time changes only in the step that ends a playback
\* successfully, and then to the time of that step; starting or finishing
\* synthesis, a skip and a failure leave it as it was.
C24_StampedAfterPlayback ==
    [][ /\ last_response_time' # last_response_time =>
             /\ receiver = "play"
             /\ Latest(replies').outcome = "played"
             /\ last_response_time' = now
             /\ metrics' = record_response(metrics)
        /\ (replies' # replies /\ Latest(replies').outcome # "played") =>
             last_response_time' = last_response_time ]_vars

\* A reply was played to its end after the clock had advanced, and another
\* transcript failed or was skipped after it.
C24_Witness ==
    /\ Len(replies) >= 2
    /\ replies[1].outcome = "played"
    /\ replies[2].outcome \in {"skipped", "failed"}
    /\ last_response_time > 0

\* C25: the step in which synthesis or playback fails counts one TTS error
\* and nothing else, releases response_lock, leaves stop_event, the tasks'
\* exceptions and the session as they were, and takes the receiver back to
\* the head of its loop.
C25_TtsFailureCaught ==
    [][ ( /\ replies' # replies
          /\ Latest(replies').outcome = "failed" ) =>
            /\ receiver \in {"synth", "play"}
            /\ metrics' = [metrics EXCEPT !.tts_errors = @ + 1]
            /\ ~ response_lock'
            /\ pipeline' = {}
            /\ receiver' = loop_head(stop_event, "recv")
            /\ UNCHANGED <<stop_event, exc, first_raised, session, run,
                           ws_open, inbox, handled>> ]_vars

\* After a failed reply a later transcript was received and answered.
C25_Witness ==
    /\ Len(replies) >= 2
    /\ replies[1].outcome = "failed"
    /\ replies[2].outcome = "played"
    /\ metrics.tts_errors = 1
    /\ session = "wait"

\* C26: the step that handles a transcript message whose text is missing,
\* empty or all whitespace changes no counter, leaves last_response_time
\* and response_lock as they were and calls no synthesis.
C26_EmptyTranscriptNoOp ==
    [][ ( /\ handled' # handled
          /\ Head(inbox).raw = "object"
          /\ Head(inbox).type = MSG_TYPE_TRANSCRIPT
          /\ \/ ~ Head(inbox).has_text
             \/ \A k \in 1..Len(Head(inbox).text) :
                    IsSpace(Head(inbox).text[k]) ) =>
            /\ UNCHANGED <<metrics, last_response_time, response_lock,
                           nsynth, pipeline, replies, reply_text>>
            /\ receiver' = loop_head(stop_event, "recv") ]_vars

\* Transcripts without a text, with an empty text and with a blank text
\* were handled once the cooldown was over, and nothing was counted.
C26_Witness ==
    /\ Len(handled) = 3
    /\ \A k \in 1..3 : handled[k].type = MSG_TYPE_TRANSCRIPT
    /\ \E k \in 1..3 : handled[k].has_text /\ handled[k].text = <<" ">>
    /\ \E k \in 1..3 : handled[k].has_text /\ handled[k].text = <<>>
    /\ \E k \in 1..3 : ~ handled[k].has_text
    /\ now >= cooldown_seconds
    /\ metrics = NewMetrics
    /\ npipeline = 3

\* ------------------------------------------- properties: the supervisor
\* An error that ends the session has happened: the connection is closed,
\* read_chunk has timed out, or the receiver has raised on an error message
\* or on a text that is no JSON.
FatalError ==
    /\ supervisor = "session"
    /\ run = "wait"
    /\ \/ ~ ws_open
       \/ reader = "raised"
       \/ \E t \in Tasks : exc[t] # "none"

\* C27: no error that ends a session leaves run_with_reconnect.  The
\* supervisor leaves a session only to sleep, until reconnect_delay after
\* the session's end whatever the number of sessions before; it leaves the
\* sleep only when that time has come, for a new run_session; every fatal
\* error leads to the sleep and every sleep that is over to a new session.
C27_SupervisorRestarts ==
    /\ [](supervisor # "exited")
    /\ [](run \in {"raised", "returned"} => supervisor = "sleep")
    /\ [][ supervisor # "sleep" /\ supervisor' = "sleep" =>
              /\ run' \in {"raised", "returned"}
              /\ sleep_until' = now + reconnect_delay ]_vars
    /\ [][ supervisor = "sleep" /\ supervisor' # "sleep" =>
              /\ now >= sleep_until
              /\ supervisor' = "session"
              /\ session' = "init" ]_vars
    /\ FatalError ~> supervisor = "sleep"
    /\ \A n \in 1..(MaxSessions - 1) :
           (supervisor = "sleep" /\ nsessions = n /\ sleep_until <= MaxClock)
               ~> (run = "wait" /\ nsessions = n + 1)

\* A session that ended with an error has been followed by a new one.
C27_Witness ==
    /\ nsessions >= 2
    /\ run = "wait"
    /\ run_exc # "none"
    /\ now >= reconnect_delay

\* -------------------------------------- properties: the reply generator
Blank(t) == \A k \in 1..Len(t) : IsSpace(t[k])
CallOver == nreplies > 0 /\ reply.pc = "idle"
ExpectedWaits ==
    [i \in 1..(OLLAMA_RETRY_ATTEMPTS - 1) |-> OLLAMA_RETRY_BACKOFF * Pow2(i - 1)]

\* C28: a call of generate_reply that a breaker did not refuse ends with
\* LLMError only after OLLAMA_RETRY_ATTEMPTS failed requests, with waits of
\* backoff, 2 * backoff, ... between them, whether or not the module has a
\* circuit breaker.
C28_RetriesBeforeLLMError ==
    ( /\ CallOver
      /\ reply.out = "LLMError"
      /\ reply.before # "open" ) =>
        /\ reply.requests = OLLAMA_RETRY_ATTEMPTS
        /\ reply.waits = ExpectedWaits

\* C29: nothing but LLMError leaves generate_reply.  A call with a blank
\* text returns the empty string and makes no request; any other call
\* returns a text if its last request succeeded and raises LLMError, with
\* no value, if its last request failed or the breaker refused the call.
C29_OnlyLLMErrorLeaves ==
    /\ reply.out \in {"none", "returned", "LLMError"}
    /\ CallOver =>
         IF Blank(reply.input)
         THEN /\ reply.out = "returned"
              /\ reply.result = "empty"
              /\ reply.requests = 0
         ELSE /\ reply.last = "ok" =>
                    reply.out = "returned" /\ reply.result = "text"
              /\ reply.last # "ok" =>
                    reply.out = "LLMError" /\ reply.result = "none"

\* The request that opened the breaker: CircuitBreakerError left the
\* decorated call and generate_reply raised LLMError.
C29_Witness ==
    /\ breaker_enabled
    /\ CallOver
    /\ reply.requests = 1
    /\ reply.last = "failed"
    /\ breaker.state = "open"
    /\ reply.out = "LLMError"

\* C30: with a breaker, after CIRCUIT_BREAKER_FAIL_MAX failed requests in
\* a row the breaker is open until its reset timeout is over; a call made
\* while it is open and the timeout is not over makes no request and
\* raises the "circuit breaker open" LLMError; a call that found the
\* breaker closed and failed raises LLMError with the backend's message.
C30_OpenBreakerFailsFast ==
    breaker_enabled =>
        /\ ( /\ streak >= CIRCUIT_BREAKER_FAIL_MAX
             /\ now < breaker.opened_at + CIRCUIT_BREAKER_RESET_TIMEOUT )
           => breaker.state = "open"
        /\ ( /\ CallOver
             /\ ~ Blank(reply.input)
             /\ reply.before = "open"
             /\ reply.at < reply.opened_at + CIRCUIT_BREAKER_RESET_TIMEOUT )
           => /\ reply.requests = 0
              /\ reply.out = "LLMError"
              /\ reply.message = "open"
        /\ ( /\ CallOver
             /\ reply.out = "LLMError"
             /\ reply.before = "closed" )
           => reply.message = "backend"

\* ------------------------------------ properties: the text-to-speech server
\* C31: a POST /tts whose text is empty after stripping is answered 400
\* without generate_reply being called; a call that ends while
\* generate_reply runs is answered 503 and has not called the synthesizer;
\* a call that ends while the synthesizer runs is answered 502; none of the
\* three changes the conversation log and each leaves every slot of the
\* semaphore free; and a call that appended an entry is answered 200.
C31_RequestScopedFailures ==
    [][/\ (ntts' = ntts + 1 /\ strip(tts_call'.text) = <<>>) =>
              /\ tts_call'.status = 400
              /\ tts_call'.pc = "idle"
              /\ ~ tts_call'.llm_called
       /\ (tts_call.pc = "llm" /\ tts_call'.pc = "idle") =>
              /\ tts_call'.status = 503
              /\ ~ tts_call'.synth_called
       /\ (tts_call.pc = "synth" /\ tts_call'.pc = "idle") =>
              tts_call'.status = 502
       /\ (tts_call'.pc = "idle" /\ tts_call'.status \in {400, 503, 502}
           /\ tts_call' # tts_call) =>
              /\ conversation_log' = conversation_log
              /\ semaphore' = TTS_MAX_CONCURRENT
              /\ ~ tts_call'.logged
       /\ (tts_call.logged /\ tts_call.pc # "idle"
           /\ tts_call'.pc = "idle") =>
              tts_call'.status = 200
      ]_vars

\* C32: with a limit N > 0, whenever no call of tts is between its append
\* and its response the log is the last N entries appended since it was
\* cleared, in the order they were appended, and no response of GET
\* /conversations holds or counts more than N entries; with N = 0 the log
\* is everything appended since it was cleared.
MostRecent(entries, n) ==
    IF Len(entries) <= n THEN entries
    ELSE SubSeq(entries, Len(entries) - n + 1, Len(entries))
C32_LogHoldsMostRecent ==
    /\ max_log_entries > 0 =>
           /\ tts_call.pc \notin {"check", "pop"} =>
                  conversation_log = MostRecent(appended, max_log_entries)
           /\ Len(log_read.seen) <= max_log_entries
           /\ log_read.total <= max_log_entries
    /\ max_log_entries = 0 => conversation_log = appended

\* C33: every update posted supplies all the fields, so a configuration
\* replaced atomically has the same value in all of them.  Every complete
\* response of GET /config and the configuration every call of tts has
\* read are of that kind, and no field ever holds a value of an update
\* that failed.
Replaced(config) ==
    \A f, g \in {"personality", "model", "speaker_id"} : config[f] = config[g]
FailedUpdates == {c \in ConfigUpdates : ~ converts("speaker_id", c.speaker_id)}
C33_ConfigReplacedAtomically ==
    /\ (config_read.pc = 0 /\ config_read.done) => Replaced(config_read.seen)
    /\ tts_call.synth_called => Replaced(tts_call)
    /\ \A c \in FailedUpdates :
           \A f \in {"personality", "model", "speaker_id"} :
               runtime_config[f] # c[f]

\* ------------------------------------------ properties: the server's errors
\* C34: in the step in which the transcriber raises for a connection, the
\* connection is sent exactly one more message, the error with the
\* exception's text (no transcript), it is closed with code 1011, and the
\* lock is free; the queue for the lock and every other connection are as
\* before.  A closed connection handles no further message and is sent
\* nothing more.
C34_ErrorEndsConnection ==
    [][\A c \in Conns :
           /\ (pb'[c].raised /\ ~ pb[c].raised) =>
                  /\ model_lock = c
                  /\ sent'[c] =
                         Append(sent[c], error_message("transcription failed"))
                  /\ close_code'[c] = 1011
                  /\ pc'[c] = "closed"
                  /\ state'[c] = state[c]
                  /\ model_lock' = Free
                  /\ waiters' = waiters
                  /\ \A d \in Conns \ {c} :
                         /\ pc'[d] = pc[d]
                         /\ state'[d] = state[d]
                         /\ sent'[d] = sent[d]
                         /\ close_code'[d] = close_code[d]
           /\ pc[c] = "closed" =>
                  /\ pc'[c] = "closed"
                  /\ sent'[c] = sent[c]
                  /\ hist'[c] = hist[c]
                  /\ state'[c] = state[c]
                  /\ ncalls'[c] = ncalls[c]
      ]_vars

\* The transcriber raised for one connection, which was closed without a
\* transcript, and then a connection that had queued behind it got the
\* lock and its transcript.
C34_Witness ==
    \E c, d \in Conns :
        /\ c # d
        /\ pb[c].raised /\ pc[c] = "closed" /\ close_code[c] = 1011
        /\ OfType(sent[c], MSG_TYPE_TRANSCRIPT) = <<>>
        /\ Len(OfType(sent[c], MSG_TYPE_ERROR)) = 1
        /\ pb[d].called /\ pb[d].done /\ ~ pb[d].raised
        /\ OfType(sent[d], MSG_TYPE_TRANSCRIPT) # <<>>
        /\ pc[d] = "recv"

\* ------------------------------------------ properties: the server's limits
OverBuffer(s) == s.total_buffered >= SecondsToBytes(MAX_BUFFER_SECONDS)
OverUtterance(s, t) ==
    s.utt_start_t # None /\ t - s.utt_start_t >= MAX_UTTERANCE_SECONDS
SilenceTimeout(s, t) ==
    /\ s.last_voice_t # None /\ t - s.last_voice_t >= SILENCE_MAX_SECONDS
    /\ Len(s.buf) > 0
\* The buffer state with a frame appended to it at time t.
Appended(s, chunk, t) ==
    [buf |-> s.buf \o chunk, started |-> TRUE, utt_start_t |-> s.utt_start_t,
     last_voice_t |-> IF is_voice(chunk) THEN t ELSE s.last_voice_t,
     total_buffered |-> s.total_buffered + Len(chunk)]

\* C35: a frame handled while the session is accumulating is appended and
\* then flushed by MAX_BUFFER_SECONDS if that limit holds, else by
\* MAX_UTTERANCE_SECONDS if that one holds, else by the silence timeout if
\* it holds, else not at all; the flush is of the buffer with the frame
\* in it, and the frame causes at most one flush and one transcription
\* call.  A voiced frame handled while the session is idle becomes the
\* buffer, whatever its length, and causes no flush.
C35_LimitsInFixedOrder ==
    [][\A c \in Session, chunk \in LimitChunks :
           RecvFrame(c, chunk) =>
               LET s == Appended(state[c], chunk, now)
                   cause == hist'[c].cause
               IN  IF state[c].started
                   THEN /\ cause = "max_buffer" <=> OverBuffer(s)
                        /\ cause = "max_utterance" <=>
                               ~ OverBuffer(s) /\ OverUtterance(s, now)
                        /\ cause = "silence" <=>
                               /\ ~ OverBuffer(s) /\ ~ OverUtterance(s, now)
                               /\ SilenceTimeout(s, now)
                        /\ cause = "none" => state'[c] = s
                        /\ cause # "none" => pb'[c].dur = Len(s.buf)
                        /\ nflush'[c] =
                               nflush[c] + (IF cause = "none" THEN 0 ELSE 1)
                        /\ ncalls'[c] \in {ncalls[c], ncalls[c] + 1}
                        /\ ncalls'[c] # ncalls[c] => cause # "none"
                   ELSE /\ cause = "none"
                        /\ nflush'[c] = nflush[c]
                        /\ ncalls'[c] = ncalls[c]
                        /\ is_voice(chunk) =>
                               /\ state'[c].started
                               /\ state'[c].buf = chunk
                               /\ state'[c].total_buffered = Len(chunk)
      ]_vars

\* The first frame was as long as MAX_BUFFER_SECONDS and was buffered
\* without a flush; the frame after it was flushed by that limit at a time
\* when the two other limits held too.
C35_Witness ==
    \E c \in Session :
        /\ hist[c].kind = "frame"
        /\ hist[c].cause = "max_buffer"
        /\ hist[c].nflush = 0
        /\ hist[c].prelen = SecondsToBytes(MAX_BUFFER_SECONDS)
        /\ pc[c] = "run"
        /\ state[c].utt_start_t = 0
        /\ state[c].last_voice_t = 0
        /\ now = MAX_UTTERANCE_SECONDS

\* ------------------------------------------- properties: the shared signal
\* The two loops take every step of their own that they can take: a get
\* that timed out returns, a message that has arrived is received, a
\* closed connection raises, a synthesis or a playback ends, a
\* cancellation that was requested is delivered.  Nothing is assumed of
\* the server, of the device or of run_session.
LoopFairness ==
    /\ WF_vars(SenderTimeout)
    /\ WF_vars(ReceiverRecv)
    /\ WF_vars(ReceiverRecvRaise)
    /\ WF_vars(SynthDone)
    /\ WF_vars(PlayDone)
    /\ WF_vars(ReplyRaise)
    /\ WF_vars(CancelSender)
SpecUnwind == InitSender /\ [][NextTeardown]_vars /\ LoopFairness

handling_transcript == receiver \in {"synth", "play"}

\* C37: whenever no transcript is being handled, also after the session
\* has ended, transcriptions = responses_generated + responses_skipped +
\* tts_errors.
C37_EveryTranscriptAccounted ==
    ~ handling_transcript =>
        metrics.transcriptions =
            metrics.responses_generated + metrics.responses_skipped
                + metrics.tts_errors

\* --------------------------------------- properties: when the server flushes
\* The step flushed connection c's buffer: process_buffer was called.
Flushed(c) == nflush'[c] # nflush[c]

\* C38: process_buffer is called only in the step that handles a message:
\* for a limit while a binary frame is handled, for the flush command while
\* a text message is handled.  The clock advancing changes no buffer and
\* sends nothing, whatever limits are overdue; a frame that arrives later
\* is appended to the buffer that was waiting, and what is flushed then is
\* that buffer with the frame.
C38_FlushOnlyOnMessage ==
    /\ [][\A c \in Session :
            Flushed(c) =>
                /\ nmsgs' = nmsgs + 1
                /\ nflush'[c] = nflush[c] + 1
                /\ \/ /\ hist'[c].kind = "frame"
                      /\ hist'[c].cause \in AutoCauses
                   \/ /\ hist'[c].kind = "flush"
                      /\ hist'[c].cause = "flush"]_vars
    /\ [][now' # now => UNCHANGED <<state, sent, nflush, ncalls, pc>>]_vars
    /\ [][\A c \in Session, chunk \in Chunks :
            /\ RecvFrame(c, chunk)
            /\ state[c].started
            /\ chunk # <<>>
            /\ Len(chunk) % 2 = 0
            => \/ state'[c].buf = state[c].buf \o chunk
               \/ /\ Flushed(c)
                  /\ pb'[c].dur = Len(state[c].buf) + Len(chunk)]_vars

\* A buffer has started and waits for the next message although the
\* silence timeout and the longest utterance are both overdue.
C38_Witness ==
    \E c \in Session :
        /\ pc[c] = "recv"
        /\ state[c].started
        /\ nflush[c] = 0
        /\ now - state[c].last_voice_t >= SILENCE_MAX_SECONDS
        /\ now - state[c].utt_start_t >= MAX_UTTERANCE_SECONDS

\* ------------------------------------ properties: the flushed acknowledgment
\* The message connection c handled last was a flush command that found a
\* non-empty buffer, and the messages sent since it was read.
ExplicitFlush(c) == hist[c].kind = "flush" /\ hist[c].cause = "flush"
FlushInProgress(c) == pc[c] \in {"lock", "run"}
SentSince(c) == SubSeq(sent[c], hist[c].nsent + 1, Len(sent[c]))
Acks(c) == SelectSeq(SentSince(c), LAMBDA m : m.type = MSG_TYPE_FLUSHED)

\* C39 as stated: every explicit flush of a non-empty buffer, once handled,
\* has been followed by exactly one flushed message.
C39_OneAckPerExplicitFlush ==
    \A c \in Session :
        ExplicitFlush(c) /\ ~ FlushInProgress(c) => Len(Acks(c)) = 1

\* C39, amended: while process_buffer is at work nothing has been sent and
\* the buffer is still the one that was flushed; once it has returned, the
\* messages sent are the transcript if the text is not empty, then flushed,
\* and the buffer is reset, also for a buffer shorter than
\* MIN_UTTERANCE_SECONDS and for an empty text; if the transcription
\* raised, no flushed message is sent: the error message is.
C39_AckAfterTranscript ==
    \A c \in Session :
        ExplicitFlush(c) =>
            IF FlushInProgress(c)
            THEN /\ SentSince(c) = <<>>
                 /\ Len(state[c].buf) = hist[c].prelen
                 /\ hist[c].prelen > 0
            ELSE IF pb[c].raised
            THEN /\ Acks(c) = <<>>
                 /\ Len(SentSince(c)) = 1
                 /\ SentSince(c)[1].type = MSG_TYPE_ERROR
            ELSE /\ SentSince(c) =
                        transcript(pb[c].text, hist[c].prelen)
                            \o <<[type |-> MSG_TYPE_FLUSHED]>>
                 /\ state[c] = reset(state[c])

\* An explicit flush whose transcription returned the empty text has been
\* acknowledged.
C39_Witness ==
    \E c \in Session :
        /\ ExplicitFlush(c)
        /\ ~ FlushInProgress(c)
        /\ pb[c].called /\ ~ pb[c].raised /\ pb[c].text = ""
        /\ Len(Acks(c)) = 1

\* ------------------------------------------------ properties: the recorder
\* run_session is between recorder.start() and its `finally`.
InSession == run \in {"wait", "gather"}

\* C40: the recorder runs while run_session is at work, in the first
\* session and in every later one, and it is stopped whenever run_session
\* has returned or raised: while the supervisor sleeps and until the next
\* session starts.
C40_RecorderStoppedBetweenSessions ==
    /\ InSession => recorder_running
    /\ ~ InSession => ~ recorder_running
    /\ supervisor = "sleep" => run \in {"returned", "raised"}

\* A session ended with an exception, the recorder was stopped, and the
\* next session has started it again.
C40_Witness ==
    /\ nsessions = 2
    /\ run_exc # "none"
    /\ InSession
    /\ recorder_running

====
